---- MODULE Spec2Model ----
(***************************************************************************)
(* Solace: the per-frame combat and physics simulation (Player,            *)
(* TargetCube, WeaponSystem, InputHandler, GameState, Game).               *)
(*                                                                         *)
(* Fixed point.  The JavaScript numbers are doubles; here every length,    *)
(* velocity and angle is an integer count of thousandths (1.7 is 1700,     *)
(* 0.005 is 5, pi/2 is 1571), health is in thousandths of a point          *)
(* (100 is 100000) and time is in milliseconds.  A product with a          *)
(* fractional factor is rounded toward zero (Mul).                         *)
(* Vectors are tuples: v[1], v[2], v[3] are the code's v[0], v[1], v[2].   *)
(***************************************************************************)
EXTENDS Integers, Sequences, FiniteSets, TLC

(***************************************************************************)
(* Arithmetic.                                                             *)
(***************************************************************************)
Abs(a) == IF a < 0 THEN -a ELSE a

Min(a, b) == IF a < b THEN a ELSE b

Max(a, b) == IF a > b THEN a ELSE b

\* a * n / d, rounded toward zero
Mul(a, n, d) == IF a >= 0 THEN (a * n) \div d ELSE -(((-a) * n) \div d)

RECURSIVE SqrtIter(_, _, _)
SqrtIter(n, lo, hi) ==
    IF hi - lo <= 1 THEN lo
    ELSE LET mid == (lo + hi) \div 2
         IN  IF mid * mid <= n THEN SqrtIter(n, mid, hi) ELSE SqrtIter(n, lo, mid)

\* Math.sqrt on squared thousandths: the integer square root
Sqrt(n) == SqrtIter(n, 0, 46341)

Pi == 3142

HalfPi == 1571

\* sine on [0, pi], thousandths in and out (Bhaskara's rational approximation)
SinHalfTurn(x) ==
    LET p == (x * (Pi - x)) \div 1000
    IN  (16000 * p) \div (49348 - 4 * p)

\* Math.sin
Sin(a) ==
    LET r == a % (2 * Pi)
    IN  IF r <= Pi THEN SinHalfTurn(r) ELSE -SinHalfTurn(r - Pi)

\* Math.cos
Cos(a) == Sin(a + HalfPi)

(***************************************************************************)
(* config.js                                                               *)
(***************************************************************************)
defaultSettings == [mouseSensitivity |-> 2000, movementSpeed |-> 100, invertMouse |-> FALSE]

weaponTypes ==
    [pistol |-> [damage |-> 15000, fireRate |-> 300, ammo |-> 12, maxAmmo |-> 12],
     rifle  |-> [damage |-> 25000, fireRate |-> 150, ammo |-> 30, maxAmmo |-> 30]]

WeaponKinds == DOMAIN weaponTypes

physics ==
    [gravity |-> 5, jumpPower |-> 180, playerHeight |-> 1700, cubeSize |-> 1000,
     gravityMultiplierUp |-> 6, gravityMultiplierDown |-> 13]

initialPlayerState ==
    [position |-> <<0, 1700, 5000>>, velocity |-> <<0, 0, 0>>, rotation |-> <<0, 0>>]

initialCubeState ==
    [position |-> <<0, 1000, -5000>>, velocity |-> <<0, 0, 0>>, rotation |-> <<0, 0, 0>>,
     angularVelocity |-> <<0, 0, 0>>, health |-> 100000, size |-> 1000]

\* the literal of weaponPickupLocations: the configured spawn points
ConfiguredPickupLocations ==
    << [type |-> "pistol", position |-> <<5000, 1000, -3000>>],
       [type |-> "rifle",  position |-> <<-5000, 1000, -3000>>],
       [type |-> "pistol", position |-> <<0, 1000, -10000>>] >>

\* an empty weapon slot (null)
NoWeapon == [type |-> "none", ammo |-> 0]

\* Date.now() when the page loads; the clock variable counts on from here
PageLoadTime == 100000

\* the values (Math.random() - 0.5) * 20 is drawn from (a respawn coordinate)
RandomCoords == {-10000, 4000}

(***************************************************************************)
(* State.                                                                  *)
(***************************************************************************)
VARIABLES
    now,            \* Date.now()
    gameState,      \* GameState: isPointerLocked, isPaused, isInMainMenu
    settings,       \* SettingsManager.settings
    input,          \* InputHandler: keys (the codes held), mouseMovementX, mouseMovementY
    player,         \* Player
    targetCube,     \* TargetCube
    weaponPickupLocations, \* config.js weaponPickupLocations: the exported array, whose
                    \* position arrays every pickup object shares (see FreshPickups)
    weaponPickups,  \* WeaponSystem.weaponPickups, without the shared position
    droppedWeapons, \* WeaponSystem.droppedWeapons
    grenades,       \* WeaponSystem.grenades
    bullets,        \* WeaponSystem.bullets
    shootResult,    \* what the last call of Player.shoot returned ("none" before any call)
    pc,             \* where Game.update stands: "idle" between frames, else the step to run next
    idx,            \* the loop index i of the bullet and grenade loops of WeaponSystem.update
    frames          \* how many frames have started

vars == <<now, gameState, settings, input, player, targetCube, weaponPickupLocations, weaponPickups,
          droppedWeapons, grenades, bullets, shootResult, pc, idx, frames>>

world == <<player, targetCube, weaponPickupLocations, weaponPickups, droppedWeapons, grenades, bullets>>

\* Remove(s, i): s.splice(i, 1), with i counted from 1
Remove(s, i) == [k \in 1..(Len(s) - 1) |-> IF k < i THEN s[k] ELSE s[k + 1]]

(***************************************************************************)
(* Construction and reset.                                                 *)
(***************************************************************************)
\* Player.reset
PlayerReset ==
    [position |-> initialPlayerState.position,
     velocity |-> initialPlayerState.velocity,
     rotation |-> initialPlayerState.rotation,
     weapons |-> [s \in {0, 1} |-> NoWeapon],
     currentWeapon |-> 0,
     grenades |-> 3,
     lastShot |-> 0,
     onGround |-> FALSE,
     isCrouching |-> FALSE,
     isSprinting |-> FALSE,
     targetHeight |-> physics.playerHeight,
     horizontalVelocity |-> <<0, 0>>,
     jumpPressed |-> FALSE,
     currentFov |-> 0,
     isZooming |-> FALSE]

\* TargetCube.reset
CubeReset ==
    [position |-> initialCubeState.position,
     velocity |-> initialCubeState.velocity,
     rotation |-> initialCubeState.rotation,
     angularVelocity |-> initialCubeState.angularVelocity,
     health |-> initialCubeState.health,
     hit |-> FALSE,
     hitTime |-> 0]

\* weaponPickupLocations.map(loc => ({...loc, picked: false, velocity: [0,0,0], rotation: random})).
\* The spread copies loc.type and the REFERENCE loc.position: pickup i and
\* weaponPickupLocations[i] hold the same position array.  So a pickup record here has
\* no position of its own; its position is weaponPickupLocations[i].position.
FreshPickups(locs, rot) ==
    [i \in 1..Len(locs) |->
        [type |-> locs[i].type,
         picked |-> FALSE,
         velocity |-> <<0, 0, 0>>,
         rotation |-> rot[i]]]

\* the draws of the three Math.random() calls of one map() that the model follows
RotationDraws == {<<0, 0, 0>>, <<Pi, 0, Pi>>}

\* new Game(): the constructors of GameState, Player, TargetCube, WeaponSystem, InputHandler
Init ==
    /\ now = PageLoadTime
    /\ gameState = [isPointerLocked |-> FALSE, isPaused |-> FALSE, isInMainMenu |-> TRUE]
    /\ settings = defaultSettings
    /\ input = [keys |-> {}, mouseMovementX |-> 0, mouseMovementY |-> 0]
    /\ player = PlayerReset
    /\ targetCube = CubeReset
    /\ weaponPickupLocations = ConfiguredPickupLocations
    /\ \E rot \in RotationDraws : weaponPickups = FreshPickups(ConfiguredPickupLocations, rot)
    /\ droppedWeapons = <<>>
    /\ grenades = <<>>
    /\ bullets = <<>>
    /\ shootResult = "none"
    /\ pc = "idle"
    /\ idx = 0
    /\ frames = 0

(***************************************************************************)
(* WeaponSystem: inventory.  The methods read and write the player and the *)
(* dropped-weapon list; each operator takes them and returns them changed. *)
(***************************************************************************)
\* dropWeapon with a fault: the weapon put on the ground is made anew from its type, with
\* the type's full ammo, not with the ammo the slot held
dropWeaponRefilled(p, dw) ==
    LET weapon == p.weapons[p.currentWeapon]
        forward == <<-Sin(p.rotation[1]), 0, -Cos(p.rotation[1])>>
    IN  IF weapon = NoWeapon
        THEN [player |-> p, droppedWeapons |-> dw]
        ELSE [player |-> [p EXCEPT !.weapons[p.currentWeapon] = NoWeapon],
              droppedWeapons |->
                  Append(dw,
                      [type |-> weapon.type,
                       ammo |-> weaponTypes[weapon.type].maxAmmo,
                       position |-> <<p.position[1] + forward[1] * 2,
                                      500,
                                      p.position[3] + forward[3] * 2>>,
                       velocity |-> <<Mul(forward[1], 100, 1000),
                                      100,
                                      Mul(forward[3], 100, 1000)>>])]

\* dropWeapon with a fault: the weapon is put on the ground and stays in the slot as well
dropWeaponKeepingSlot(p, dw) ==
    LET weapon == p.weapons[p.currentWeapon]
        forward == <<-Sin(p.rotation[1]), 0, -Cos(p.rotation[1])>>
    IN  IF weapon = NoWeapon
        THEN [player |-> p, droppedWeapons |-> dw]
        ELSE [player |-> p,
              droppedWeapons |->
                  Append(dw,
                      [type |-> weapon.type,
                       ammo |-> weapon.ammo,
                       position |-> <<p.position[1] + forward[1] * 2,
                                      500,
                                      p.position[3] + forward[3] * 2>>,
                       velocity |-> <<Mul(forward[1], 100, 1000),
                                      100,
                                      Mul(forward[3], 100, 1000)>>])]

\* WeaponSystem.dropWeapon
dropWeapon(p, dw) ==
    LET weapon == p.weapons[p.currentWeapon]
        forward == <<-Sin(p.rotation[1]), 0, -Cos(p.rotation[1])>>
    IN  IF weapon = NoWeapon
        THEN [player |-> p, droppedWeapons |-> dw]
        ELSE [player |-> [p EXCEPT !.weapons[p.currentWeapon] = NoWeapon],
              droppedWeapons |->
                  Append(dw,
                      [type |-> weapon.type,
                       ammo |-> weapon.ammo,
                       position |-> <<p.position[1] + forward[1] * 2,
                                      500,
                                      p.position[3] + forward[3] * 2>>,
                       velocity |-> <<Mul(forward[1], 100, 1000),
                                      100,
                                      Mul(forward[3], 100, 1000)>>])]

\* PlaceWeapon with a fault: a weapon put in the other slot does not make that slot active
PlaceWeaponNoSwitch(p, dw, weapon) ==
    LET otherSlot == IF p.currentWeapon = 0 THEN 1 ELSE 0
    IN  IF p.weapons[p.currentWeapon] = NoWeapon
        THEN [player |-> [p EXCEPT !.weapons[p.currentWeapon] = weapon],
              droppedWeapons |-> dw]
        ELSE IF p.weapons[otherSlot] = NoWeapon
        THEN [player |-> [p EXCEPT !.weapons[otherSlot] = weapon],
              droppedWeapons |-> dw]
        ELSE LET d == dropWeapon(p, dw)
             IN  [player |-> [d.player EXCEPT !.weapons[d.player.currentWeapon] = weapon],
                  droppedWeapons |-> d.droppedWeapons]

\* the three-way placement shared by pickupWeapon and the dropped-weapon branch of checkPickup
PlaceWeapon(p, dw, weapon) ==
    LET otherSlot == IF p.currentWeapon = 0 THEN 1 ELSE 0
    IN  IF p.weapons[p.currentWeapon] = NoWeapon
        THEN [player |-> [p EXCEPT !.weapons[p.currentWeapon] = weapon],
              droppedWeapons |-> dw]
        ELSE IF p.weapons[otherSlot] = NoWeapon
        THEN [player |-> [p EXCEPT !.weapons[otherSlot] = weapon,
                                   !.currentWeapon = otherSlot],
              droppedWeapons |-> dw]
        ELSE LET d == dropWeapon(p, dw)
             IN  [player |-> [d.player EXCEPT !.weapons[d.player.currentWeapon] = weapon],
                  droppedWeapons |-> d.droppedWeapons]

\* WeaponSystem.pickupWeapon
pickupWeapon(p, dw, weaponType) ==
    PlaceWeapon(p, dw, [type |-> weaponType, ammo |-> weaponTypes[weaponType].maxAmmo])

\* Math.sqrt(dx * dx + dz * dz) for two positions
DistXZ(a, b) == Sqrt((a[1] - b[1]) * (a[1] - b[1]) + (a[3] - b[3]) * (a[3] - b[3]))

\* checkPickup, first loop: weaponPickups.forEach from pickup i on
RECURSIVE CheckStatic(_, _)
CheckStatic(st, i) ==
    IF i > Len(st.weaponPickups) THEN st
    ELSE LET pickup == st.weaponPickups[i]
             position == st.weaponPickupLocations[i].position
         IN  IF pickup.picked \/ ~(DistXZ(st.player.position, position) < 2000)
             THEN CheckStatic(st, i + 1)
             ELSE LET r == pickupWeapon(st.player, st.droppedWeapons, pickup.type)
                  IN  CheckStatic(
                          [st EXCEPT !.player = r.player,
                                     !.droppedWeapons = r.droppedWeapons,
                                     !.weaponPickups[i].picked = TRUE],
                          i + 1)

\* newWeapon with a fault: the weapon taken off the ground gets the full ammo of its kind
newWeaponRefilled(weapon) ==
    [type |-> weapon.type, ammo |-> weaponTypes[weapon.type].maxAmmo]

\* checkPickup: const newWeapon = { type: weapon.type, ammo: weapon.ammo }
newWeapon(weapon) == [type |-> weapon.type, ammo |-> weapon.ammo]

\* checkPickup, second loop: for (i = droppedWeapons.length - 1; i >= 0; i--), with its break
RECURSIVE CheckDropped(_, _)
CheckDropped(st, i) ==
    IF i < 1 THEN st
    ELSE LET weapon == st.droppedWeapons[i]
         IN  IF ~(DistXZ(st.player.position, weapon.position) < 2000)
             THEN CheckDropped(st, i - 1)
             ELSE LET r == PlaceWeapon(st.player, st.droppedWeapons, newWeapon(weapon))
                  IN  [st EXCEPT !.player = r.player,
                                 !.droppedWeapons = Remove(r.droppedWeapons, i)]

\* WeaponSystem.checkPickup
checkPickup(p, dw, wp, locs) ==
    LET s1 == CheckStatic([player |-> p, droppedWeapons |-> dw, weaponPickups |-> wp,
                           weaponPickupLocations |-> locs], 1)
    IN  CheckDropped(s1, Len(s1.droppedWeapons))

\* WeaponSystem.fireBullet
fireBullet(bs, position, direction, weaponType) ==
    LET bulletSpeed == IF weaponType = "pistol" THEN 1000 ELSE 1200
    IN  Append(bs,
            [position |-> position,
             velocity |-> <<Mul(direction[1], bulletSpeed, 1000),
                            Mul(direction[2], bulletSpeed, 1000),
                            Mul(direction[3], bulletSpeed, 1000)>>,
             damage |-> weaponTypes[weaponType].damage,
             lifetime |-> now + 3000,
             type |-> weaponType])

\* the aim direction of Player.shoot
AimForward(rotation) ==
    LET cosPitch == Cos(rotation[2])
        sinPitch == Sin(rotation[2])
    IN  <<Mul(-Sin(rotation[1]), cosPitch, 1000), sinPitch, Mul(-Cos(rotation[1]), cosPitch, 1000)>>

\* ShootRejected with a fault: the fire-rate test is missing
ShootRejectedRateUntested(p) ==
    \/ p.weapons[p.currentWeapon] = NoWeapon
    \/ p.weapons[p.currentWeapon].ammo <= 0

\* ShootRejected with a fault: the test "currentWeapon.ammo <= 0" is missing
ShootRejectedAmmoUntested(p) ==
    \/ p.weapons[p.currentWeapon] = NoWeapon
    \/ now - p.lastShot < weaponTypes[p.weapons[p.currentWeapon].type].fireRate

\* Player.shoot rejects the call (returns false before changing anything)
ShootRejected(p) ==
    \/ p.weapons[p.currentWeapon] = NoWeapon
    \/ now - p.lastShot < weaponTypes[p.weapons[p.currentWeapon].type].fireRate
    \/ p.weapons[p.currentWeapon].ammo <= 0

\* Shoot with a fault: an accepted shot does not record its time in lastShot
ShootUntimed ==
    IF ShootRejected(player)
    THEN /\ shootResult' = "false"
         /\ UNCHANGED <<player, bullets>>
    ELSE LET currentWeapon == player.weapons[player.currentWeapon]
             forward == AimForward(player.rotation)
             bulletStart == <<player.position[1] + Mul(forward[1], 500, 1000),
                              player.position[2] + Mul(forward[2], 500, 1000),
                              player.position[3] + Mul(forward[3], 500, 1000)>>
         IN  /\ player' = [player EXCEPT !.weapons[player.currentWeapon].ammo = @ - 1]
             /\ bullets' = fireBullet(bullets, bulletStart, forward, currentWeapon.type)
             /\ shootResult' = "true"

\* Player.shoot
Shoot ==
    IF ShootRejected(player)
    THEN /\ shootResult' = "false"
         /\ UNCHANGED <<player, bullets>>
    ELSE LET currentWeapon == player.weapons[player.currentWeapon]
             forward == AimForward(player.rotation)
             bulletStart == <<player.position[1] + Mul(forward[1], 500, 1000),
                              player.position[2] + Mul(forward[2], 500, 1000),
                              player.position[3] + Mul(forward[3], 500, 1000)>>
         IN  /\ player' = [player EXCEPT !.lastShot = now,
                                         !.weapons[player.currentWeapon].ammo = @ - 1]
             /\ bullets' = fireBullet(bullets, bulletStart, forward, currentWeapon.type)
             /\ shootResult' = "true"

\* throwGrenade with a fault: the test "grenades <= 0" is missing
throwGrenadeUncounted(p, gs) ==
    LET forward == <<Sin(p.rotation[1]), -Sin(p.rotation[2]), -Cos(p.rotation[1])>>
        startPos == <<p.position[1] + forward[1],
                      p.position[2] + forward[2],
                      p.position[3] + forward[3]>>
    IN  [player |-> [p EXCEPT !.grenades = @ - 1],
         grenades |->
             Append(gs,
                 [position |-> startPos,
                  velocity |-> <<Mul(forward[1], 300, 1000),
                                 Mul(forward[2], 300, 1000) + 200,
                                 Mul(forward[3], 300, 1000)>>,
                  fuseTime |-> now + 3000])]

\* WeaponSystem.throwGrenade
throwGrenade(p, gs) ==
    LET forward == <<Sin(p.rotation[1]), -Sin(p.rotation[2]), -Cos(p.rotation[1])>>
        startPos == <<p.position[1] + forward[1],
                      p.position[2] + forward[2],
                      p.position[3] + forward[3]>>
    IN  IF p.grenades <= 0
        THEN [player |-> p, grenades |-> gs]
        ELSE [player |-> [p EXCEPT !.grenades = @ - 1],
              grenades |->
                  Append(gs,
                      [position |-> startPos,
                       velocity |-> <<Mul(forward[1], 300, 1000),
                                      Mul(forward[2], 300, 1000) + 200,
                                      Mul(forward[3], 300, 1000)>>,
                       fuseTime |-> now + 3000])]

(***************************************************************************)
(* Player.update, TargetCube.update, Player.handleCubeCollision.           *)
(***************************************************************************)
\* ClampPitch with a fault: the pitch is bounded above only
ClampPitchAboveOnly(pitch0) == Min(HalfPi, pitch0)

\* Math.max(-Math.PI / 2, Math.min(Math.PI / 2, this.rotation[1]))
ClampPitch(pitch0) == Max(-HalfPi, Min(HalfPi, pitch0))

\* JumpCondition with a fault: the jump key held since the previous update counts as a
\* press
JumpConditionWhileHeld(spacePressed, p, isCrouching) ==
    spacePressed /\ p.onGround /\ ~isCrouching

\* the condition under which Player.update starts a jump
JumpCondition(spacePressed, p, isCrouching) ==
    spacePressed /\ ~p.jumpPressed /\ p.onGround /\ ~isCrouching

\* Player.update
PlayerUpdate(p, keys, mouseMovementX, mouseMovementY, st) ==
    LET invertMultiplier == IF st.invertMouse THEN -1 ELSE 1
        yaw == p.rotation[1] - Mul(mouseMovementX * 2, st.mouseSensitivity, 1000) * invertMultiplier
        pitch0 == p.rotation[2] - Mul(mouseMovementY * 2, st.mouseSensitivity, 1000) * invertMultiplier
        pitch == ClampPitch(pitch0)
        isCrouching == keys \cap {"ControlLeft", "ControlRight", "KeyC"} # {}
        targetHeight == IF isCrouching THEN 1200 ELSE physics.playerHeight
        heightDiff == targetHeight - p.position[2]
        y1 == IF Abs(heightDiff) < 10 THEN targetHeight
              ELSE p.position[2] + Mul(heightDiff, 8, 100)
        isSprinting == /\ keys \cap {"ShiftLeft", "ShiftRight"} # {}
                       /\ ~isCrouching
                       /\ p.onGround
        maxSpeed == IF isSprinting THEN Mul(st.movementSpeed, 18, 10)
                    ELSE IF isCrouching THEN Mul(st.movementSpeed, 5, 10)
                    ELSE st.movementSpeed
        forward == <<-Sin(yaw), 0, -Cos(yaw)>>
        right == <<Cos(yaw), 0, -Sin(yaw)>>
        sgn(k) == IF k \in keys THEN 1 ELSE 0
        targetVelocity ==
            << (sgn("KeyW") - sgn("KeyS")) * Mul(forward[1], maxSpeed, 1000)
                   + (sgn("KeyD") - sgn("KeyA")) * Mul(right[1], maxSpeed, 1000),
               (sgn("KeyW") - sgn("KeyS")) * Mul(forward[3], maxSpeed, 1000)
                   + (sgn("KeyD") - sgn("KeyA")) * Mul(right[3], maxSpeed, 1000) >>
        \* accelerate toward the target (0.25), then decelerate (0.85); "< 0.0001" is "= 0" here
        smooth(h, t) == Mul(h + Mul(t - h, 25, 100), 85, 100)
        hv == <<smooth(p.horizontalVelocity[1], targetVelocity[1]),
                smooth(p.horizontalVelocity[2], targetVelocity[2])>>
        spacePressed == "Space" \in keys
        jump == JumpCondition(spacePressed, p, isCrouching)
        vy0 == IF jump THEN physics.jumpPower ELSE p.velocity[2]
        gravityMultiplier == IF vy0 > 0 THEN physics.gravityMultiplierUp
                             ELSE physics.gravityMultiplierDown
        vy1 == vy0 - Mul(physics.gravity, gravityMultiplier, 10)
        y2 == y1 + vy1
        landed == y2 <= targetHeight
        targetFov == IF p.isZooming THEN -30000 ELSE IF isSprinting THEN 10000 ELSE 0
    IN  [p EXCEPT
            !.rotation = <<yaw, pitch>>,
            !.isCrouching = isCrouching,
            !.targetHeight = targetHeight,
            !.isSprinting = isSprinting,
            !.horizontalVelocity = hv,
            !.position = <<p.position[1] + hv[1],
                           IF landed THEN targetHeight ELSE y2,
                           p.position[3] + hv[2]>>,
            !.velocity = [p.velocity EXCEPT ![2] = IF landed THEN 0 ELSE vy1],
            !.onGround = IF landed THEN TRUE ELSE IF jump THEN FALSE ELSE p.onGround,
            !.jumpPressed = spacePressed,
            !.currentFov = p.currentFov + Mul(targetFov - p.currentFov, 15, 100)]

\* Math.round(a / d) (halves go up)
RoundDiv(a, d) == (2 * a + d) \div (2 * d)

\* SnapAxis with a fault: no lerp toward the snapped rotation, only the exact snap when
\* very close
SnapAxisWhenCloseOnly(r) ==
    LET snappedRotation == RoundDiv(r, HalfPi) * HalfPi
        rotationDiff == snappedRotation - r
    IN  IF Abs(rotationDiff) < 10 THEN snappedRotation ELSE r

\* the rest snap of one rotation axis
SnapAxis(r) ==
    LET snappedRotation == RoundDiv(r, HalfPi) * HalfPi
        rotationDiff == snappedRotation - r
    IN  IF Abs(rotationDiff) < 10 THEN snappedRotation ELSE r + Mul(rotationDiff, 15, 100)

\* TargetCube.update
CubeUpdate(c) ==
    LET vy == c.velocity[2] - physics.gravity
        pos == <<c.position[1] + c.velocity[1], c.position[2] + vy, c.position[3] + c.velocity[3]>>
        rot == <<c.rotation[1] + c.angularVelocity[1],
                 c.rotation[2] + c.angularVelocity[2],
                 c.rotation[3] + c.angularVelocity[3]>>
        ground == pos[2] - initialCubeState.size \div 2 <= 0
        vx == Mul(c.velocity[1], 95, 100)
        vz == Mul(c.velocity[3], 95, 100)
        av == <<Mul(c.angularVelocity[1], 92, 100),
                Mul(c.angularVelocity[2], 92, 100),
                Mul(c.angularVelocity[3], 92, 100)>>
        atRest == /\ Sqrt(vx * vx + vz * vz) < 20
                  /\ Sqrt(av[1] * av[1] + av[2] * av[2] + av[3] * av[3]) < 50
        hit == IF c.hit /\ now - c.hitTime > 100 THEN FALSE ELSE c.hit
    IN  IF ~ground
        THEN [c EXCEPT !.velocity = <<c.velocity[1], vy, c.velocity[3]>>,
                       !.position = pos, !.rotation = rot, !.hit = hit]
        ELSE IF ~atRest
        THEN [c EXCEPT !.velocity = <<vx, 0, vz>>,
                       !.position = <<pos[1], initialCubeState.size \div 2, pos[3]>>,
                       !.rotation = rot, !.angularVelocity = av, !.hit = hit]
        ELSE [c EXCEPT !.velocity = <<0, 0, 0>>,
                       !.position = <<pos[1], initialCubeState.size \div 2, pos[3]>>,
                       !.rotation = <<SnapAxis(rot[1]), SnapAxis(rot[2]), SnapAxis(rot[3])>>,
                       !.angularVelocity = <<0, 0, 0>>, !.hit = hit]

\* handleCubeCollision with a fault: no test "distanceXZ > 0.01"; centres closer than that
\* are separated along the x axis
handleCubeCollisionUnguarded(p, c) ==
    LET dx == p.position[1] - c.position[1]
        dz == p.position[3] - c.position[3]
        distanceXZ == Sqrt(dx * dx + dz * dz)
        minDistance == 500 + initialCubeState.size \div 2
        overlap == minDistance - distanceXZ
        nx == IF distanceXZ > 10 THEN Mul(dx, 1000, distanceXZ) ELSE 1000
        nz == IF distanceXZ > 10 THEN Mul(dz, 1000, distanceXZ) ELSE 0
        separationStrength == Mul(overlap, 5, 10)
    IN  IF distanceXZ < minDistance
        THEN [player |->
                  [p EXCEPT !.position =
                      <<p.position[1] + Mul(nx, separationStrength, 1000),
                        p.position[2],
                        p.position[3] + Mul(nz, separationStrength, 1000)>>],
              targetCube |->
                  [c EXCEPT
                      !.velocity = <<c.velocity[1] - Mul(nx, 150, 1000),
                                     c.velocity[2],
                                     c.velocity[3] - Mul(nz, 150, 1000)>>,
                      !.angularVelocity = <<c.angularVelocity[1] + Mul(nz, 15, 1000),
                                            c.angularVelocity[2],
                                            c.angularVelocity[3] - Mul(nx, 15, 1000)>>,
                      !.position = <<c.position[1] - Mul(nx, separationStrength, 1000),
                                     c.position[2],
                                     c.position[3] - Mul(nz, separationStrength, 1000)>>]]
        ELSE [player |-> p, targetCube |-> c]

\* Player.handleCubeCollision
handleCubeCollision(p, c) ==
    LET dx == p.position[1] - c.position[1]
        dz == p.position[3] - c.position[3]
        distanceXZ == Sqrt(dx * dx + dz * dz)
        minDistance == 500 + initialCubeState.size \div 2
        overlap == minDistance - distanceXZ
        nx == Mul(dx, 1000, distanceXZ)
        nz == Mul(dz, 1000, distanceXZ)
        separationStrength == Mul(overlap, 5, 10)
    IN  IF distanceXZ < minDistance /\ distanceXZ > 10
        THEN [player |->
                  [p EXCEPT !.position =
                      <<p.position[1] + Mul(nx, separationStrength, 1000),
                        p.position[2],
                        p.position[3] + Mul(nz, separationStrength, 1000)>>],
              targetCube |->
                  [c EXCEPT
                      !.velocity = <<c.velocity[1] - Mul(nx, 150, 1000),
                                     c.velocity[2],
                                     c.velocity[3] - Mul(nz, 150, 1000)>>,
                      !.angularVelocity = <<c.angularVelocity[1] + Mul(nz, 15, 1000),
                                            c.angularVelocity[2],
                                            c.angularVelocity[3] - Mul(nx, 15, 1000)>>,
                      !.position = <<c.position[1] - Mul(nx, separationStrength, 1000),
                                     c.position[2],
                                     c.position[3] - Mul(nz, separationStrength, 1000)>>]]
        ELSE [player |-> p, targetCube |-> c]

\* PickupPhysics with a fault: a picked pickup is moved like any other
PickupPhysicsPickedToo(pickup, position, p) ==
    LET vy0 == pickup.velocity[2] - physics.gravity
        vx == Mul(pickup.velocity[1], 92, 100)
        vz == Mul(pickup.velocity[3], 92, 100)
        y0 == position[2] + vy0
        grounded == y0 <= 150
        pos == <<position[1] + vx, IF grounded THEN 150 ELSE y0, position[3] + vz>>
        vy == IF grounded THEN 0 ELSE vy0
        dx == pos[1] - p.position[1]
        dz == pos[3] - p.position[3]
        distanceXZ == Sqrt(dx * dx + dz * dz)
        overlap == 800 - distanceXZ
        nx == Mul(dx, 1000, distanceXZ)
        nz == Mul(dz, 1000, distanceXZ)
        separationStrength == Mul(overlap, 5, 10)
    IN  IF distanceXZ < 800 /\ distanceXZ > 10
        THEN [velocity |-> <<vx + Mul(nx, 80, 1000), vy, vz + Mul(nz, 80, 1000)>>,
              position |-> <<pos[1] + Mul(nx, separationStrength, 1000),
                             pos[2],
                             pos[3] + Mul(nz, separationStrength, 1000)>>]
        ELSE [velocity |-> <<vx, vy, vz>>, position |-> pos]

(***************************************************************************)
(* WeaponSystem.update, loop by loop.                                      *)
(***************************************************************************)
\* the body of weaponPickups.forEach in update: the pickup's velocity and (shared) position
PickupPhysics(pickup, position, p) ==
    LET vy0 == pickup.velocity[2] - physics.gravity
        vx == Mul(pickup.velocity[1], 92, 100)
        vz == Mul(pickup.velocity[3], 92, 100)
        y0 == position[2] + vy0
        grounded == y0 <= 150
        pos == <<position[1] + vx, IF grounded THEN 150 ELSE y0, position[3] + vz>>
        vy == IF grounded THEN 0 ELSE vy0
        dx == pos[1] - p.position[1]
        dz == pos[3] - p.position[3]
        distanceXZ == Sqrt(dx * dx + dz * dz)
        overlap == 800 - distanceXZ
        nx == Mul(dx, 1000, distanceXZ)
        nz == Mul(dz, 1000, distanceXZ)
        separationStrength == Mul(overlap, 5, 10)
    IN  IF pickup.picked
        THEN [velocity |-> pickup.velocity, position |-> position]
        ELSE IF distanceXZ < 800 /\ distanceXZ > 10
        THEN [velocity |-> <<vx + Mul(nx, 80, 1000), vy, vz + Mul(nz, 80, 1000)>>,
              position |-> <<pos[1] + Mul(nx, separationStrength, 1000),
                             pos[2],
                             pos[3] + Mul(nz, separationStrength, 1000)>>]
        ELSE [velocity |-> <<vx, vy, vz>>, position |-> pos]

\* the bullet lies inside the cube's axis-aligned half-extent box
BulletInCube(pos, c) ==
    LET halfSize == initialCubeState.size \div 2
    IN  /\ Abs(pos[1] - c.position[1]) < halfSize
        /\ Abs(pos[2] - c.position[2]) < halfSize
        /\ Abs(pos[3] - c.position[3]) < halfSize

\* BulletRespawn with a fault: the health is not set back
BulletRespawnUnhealed(c, rx, rz) ==
    [c EXCEPT !.position = <<rx, initialCubeState.size \div 2, rz>>,
              !.velocity = <<0, 0, 0>>,
              !.rotation = <<0, 0, 0>>,
              !.angularVelocity = <<0, 0, 0>>]

\* the respawn of the bullet branch: position, velocity, rotation, angular velocity, health
BulletRespawn(c, rx, rz) ==
    [c EXCEPT !.position = <<rx, initialCubeState.size \div 2, rz>>,
              !.velocity = <<0, 0, 0>>,
              !.rotation = <<0, 0, 0>>,
              !.angularVelocity = <<0, 0, 0>>,
              !.health = 100000]

\* BulletHit with a fault: the bullet's damage is taken twice
BulletHitTwice(c, bullet) ==
    LET speed == Sqrt(bullet.velocity[1] * bullet.velocity[1]
                      + bullet.velocity[2] * bullet.velocity[2]
                      + bullet.velocity[3] * bullet.velocity[3])
        dir == <<Mul(bullet.velocity[1], 1000, speed),
                 Mul(bullet.velocity[2], 1000, speed),
                 Mul(bullet.velocity[3], 1000, speed)>>
    IN  [c EXCEPT !.hit = TRUE,
                  !.hitTime = now,
                  !.health = c.health - 2 * bullet.damage,
                  !.velocity = <<c.velocity[1] + Mul(dir[1], 100, 1000),
                                 c.velocity[2] + Mul(dir[2], 100, 1000),
                                 c.velocity[3] + Mul(dir[3], 100, 1000)>>,
                  !.angularVelocity = <<c.angularVelocity[1] + Mul(dir[3], 20, 1000),
                                        c.angularVelocity[2],
                                        c.angularVelocity[3] - Mul(dir[1], 20, 1000)>>]

\* the cube after a bullet hit, before the health test
BulletHit(c, bullet) ==
    LET speed == Sqrt(bullet.velocity[1] * bullet.velocity[1]
                      + bullet.velocity[2] * bullet.velocity[2]
                      + bullet.velocity[3] * bullet.velocity[3])
        dir == <<Mul(bullet.velocity[1], 1000, speed),
                 Mul(bullet.velocity[2], 1000, speed),
                 Mul(bullet.velocity[3], 1000, speed)>>
    IN  [c EXCEPT !.hit = TRUE,
                  !.hitTime = now,
                  !.health = c.health - bullet.damage,
                  !.velocity = <<c.velocity[1] + Mul(dir[1], 100, 1000),
                                 c.velocity[2] + Mul(dir[2], 100, 1000),
                                 c.velocity[3] + Mul(dir[3], 100, 1000)>>,
                  !.angularVelocity = <<c.angularVelocity[1] + Mul(dir[3], 20, 1000),
                                        c.angularVelocity[2],
                                        c.angularVelocity[3] - Mul(dir[1], 20, 1000)>>]

\* the body of the dropped-weapon loop of update
DroppedPhysics(weapon) ==
    LET vy == weapon.velocity[2] - physics.gravity
        y == weapon.position[2] + vy
    IN  IF y <= 500
        THEN [weapon EXCEPT !.position = <<weapon.position[1] + weapon.velocity[1],
                                           500,
                                           weapon.position[3] + weapon.velocity[3]>>,
                            !.velocity = <<0, 0, 0>>]
        ELSE [weapon EXCEPT !.position = <<weapon.position[1] + weapon.velocity[1],
                                           y,
                                           weapon.position[3] + weapon.velocity[3]>>,
                            !.velocity = <<weapon.velocity[1], vy, weapon.velocity[3]>>]

\* GrenadePhysics with a fault: the bounce keeps the whole vertical speed
GrenadePhysicsFullBounce(grenade) ==
    LET vy == grenade.velocity[2] - physics.gravity
        y == grenade.position[2] + vy
        x == grenade.position[1] + grenade.velocity[1]
        z == grenade.position[3] + grenade.velocity[3]
    IN  IF y <= 300
        THEN [grenade EXCEPT !.position = <<x, 300, z>>,
                             !.velocity = <<Mul(grenade.velocity[1], 8, 10),
                                            -vy,
                                            Mul(grenade.velocity[3], 8, 10)>>]
        ELSE [grenade EXCEPT !.position = <<x, y, z>>,
                             !.velocity = <<grenade.velocity[1], vy, grenade.velocity[3]>>]

\* GrenadePhysics with a fault: the ground is taken to be at height 0, not 0.3
GrenadePhysicsLowFloor(grenade) ==
    LET vy == grenade.velocity[2] - physics.gravity
        y == grenade.position[2] + vy
        x == grenade.position[1] + grenade.velocity[1]
        z == grenade.position[3] + grenade.velocity[3]
    IN  IF y <= 0
        THEN [grenade EXCEPT !.position = <<x, 0, z>>,
                             !.velocity = <<Mul(grenade.velocity[1], 8, 10),
                                            Mul(-vy, 5, 10),
                                            Mul(grenade.velocity[3], 8, 10)>>]
        ELSE [grenade EXCEPT !.position = <<x, y, z>>,
                             !.velocity = <<grenade.velocity[1], vy, grenade.velocity[3]>>]

\* the grenade after gravity, motion and the ground bounce
GrenadePhysics(grenade) ==
    LET vy == grenade.velocity[2] - physics.gravity
        y == grenade.position[2] + vy
        x == grenade.position[1] + grenade.velocity[1]
        z == grenade.position[3] + grenade.velocity[3]
    IN  IF y <= 300
        THEN [grenade EXCEPT !.position = <<x, 300, z>>,
                             !.velocity = <<Mul(grenade.velocity[1], 8, 10),
                                            Mul(-vy, 5, 10),
                                            Mul(grenade.velocity[3], 8, 10)>>]
        ELSE [grenade EXCEPT !.position = <<x, y, z>>,
                             !.velocity = <<grenade.velocity[1], vy, grenade.velocity[3]>>]

\* Math.sqrt(dx*dx + dy*dy + dz*dz) from the grenade to the cube
BlastDistance(c, grenade) ==
    LET dx == c.position[1] - grenade.position[1]
        dy == c.position[2] - grenade.position[2]
        dz == c.position[3] - grenade.position[3]
    IN  Sqrt(dx * dx + dy * dy + dz * dz)

\* BlastDamage with a fault: no falloff with the distance
BlastDamageFlat(dist) == 50000

\* 50 * (1 - dist / 5)
BlastDamage(dist) == 50000 - 10 * dist

\* the blast reaches the cube
InBlast(dist) == dist < 5000

\* the cube after an explosion in range, before the health test
Explosion(c, grenade) ==
    LET dx == c.position[1] - grenade.position[1]
        dy == c.position[2] - grenade.position[2]
        dz == c.position[3] - grenade.position[3]
        dist == BlastDistance(c, grenade)
        nx == Mul(dx, 1000, dist + 10)
        ny == Mul(dy, 1000, dist + 10)
        nz == Mul(dz, 1000, dist + 10)
        force == 300 - Mul(dist, 300, 5000)
    IN  [c EXCEPT !.health = c.health - BlastDamage(dist),
                  !.hit = TRUE,
                  !.hitTime = now,
                  !.velocity = <<c.velocity[1] + Mul(nx, force, 1000),
                                 c.velocity[2] + Mul(ny, force, 1000) + 200,
                                 c.velocity[3] + Mul(nz, force, 1000)>>]

\* the respawn of the grenade branch: position, velocity and health only
GrenadeRespawn(c, rx, rz) ==
    [c EXCEPT !.position = <<rx, initialCubeState.size \div 2, rz>>,
              !.velocity = <<0, 0, 0>>,
              !.health = 100000]

(***************************************************************************)
(* The clock, and the browser's pointer lock.                              *)
(***************************************************************************)
\* Date.now() advances between events and frames (a frame itself takes no time):
\* by one of steps milliseconds, up to maxClock milliseconds after page load
Tick(steps, maxClock) ==
    /\ pc = "idle"
    /\ \E dt \in steps :
          /\ now + dt <= PageLoadTime + maxClock
          /\ now' = now + dt
    /\ UNCHANGED <<gameState, settings, input, world, shootResult, pc, idx, frames>>

\* GameState.setupPointerLock: 'pointerlockchange'; the browser grants and revokes the lock
PointerLockChange ==
    /\ pc = "idle"
    /\ gameState' = [gameState EXCEPT !.isPointerLocked = ~@]
    /\ UNCHANGED <<now, settings, input, world, shootResult, pc, idx, frames>>

(***************************************************************************)
(* InputHandler: the event listeners and Game.setupCallbacks' callbacks.   *)
(***************************************************************************)
\* 'mousemove', with (movementX, movementY) one of deltas
MouseMove(deltas) ==
    /\ pc = "idle"
    /\ \E d \in deltas :
          input' = IF gameState.isPointerLocked /\ ~gameState.isPaused
                   THEN [input EXCEPT !.mouseMovementX = d[1], !.mouseMovementY = d[2]]
                   ELSE input
    /\ UNCHANGED <<now, gameState, settings, world, shootResult, pc, idx, frames>>

\* 'mousedown', button 0: onShoot
MouseDownLeft ==
    /\ pc = "idle"
    /\ IF gameState.isPointerLocked /\ ~gameState.isPaused
       THEN Shoot
       ELSE UNCHANGED <<player, bullets, shootResult>>
    /\ UNCHANGED <<now, gameState, settings, input, targetCube, weaponPickupLocations,
                   weaponPickups, droppedWeapons, grenades, pc, idx, frames>>

\* 'mousedown', button 2: onZoom(true), Player.setZooming
MouseDownRight ==
    /\ pc = "idle"
    /\ player' = IF gameState.isPointerLocked /\ ~gameState.isPaused
                 THEN [player EXCEPT !.isZooming = TRUE]
                 ELSE player
    /\ UNCHANGED <<now, gameState, settings, input, targetCube, weaponPickupLocations,
                   weaponPickups, droppedWeapons, grenades, bullets, shootResult, pc, idx, frames>>

\* 'mouseup', button 2: onZoom(false)
MouseUpRight ==
    /\ pc = "idle"
    /\ player' = [player EXCEPT !.isZooming = FALSE]
    /\ UNCHANGED <<now, gameState, settings, input, targetCube, weaponPickupLocations,
                   weaponPickups, droppedWeapons, grenades, bullets, shootResult, pc, idx, frames>>

\* KeysLive with a fault: the main menu is not tested
KeysLiveUnlessPaused == ~gameState.isPaused

\* KeysLive with a fault: the keys act in every state of the menus
KeysLiveAlways == TRUE

\* the guard of the key actions in handleKeyDown
KeysLive == ~gameState.isPaused /\ ~gameState.isInMainMenu

\* handleKeyDown, KeyP or Tab: GameState.showPauseMenu
PauseKey ==
    /\ pc = "idle"
    /\ gameState' = IF KeysLive THEN [gameState EXCEPT !.isPaused = TRUE] ELSE gameState
    /\ UNCHANGED <<now, settings, input, world, shootResult, pc, idx, frames>>

\* WeaponSwitch with a fault: Digit3 switches too, to a slot 2 that does not exist
WeaponSwitchThreeDigits ==
    /\ pc = "idle"
    /\ \E slot \in {0, 1, 2} :
          player' = IF KeysLive THEN [player EXCEPT !.currentWeapon = slot] ELSE player
    /\ UNCHANGED <<now, gameState, settings, input, targetCube, weaponPickupLocations,
                   weaponPickups, droppedWeapons, grenades, bullets, shootResult, pc, idx, frames>>

\* handleKeyDown, Digit1 (slot 0) or Digit2 (slot 1): onWeaponSwitch
WeaponSwitch ==
    /\ pc = "idle"
    /\ \E slot \in {0, 1} :
          player' = IF KeysLive THEN [player EXCEPT !.currentWeapon = slot] ELSE player
    /\ UNCHANGED <<now, gameState, settings, input, targetCube, weaponPickupLocations,
                   weaponPickups, droppedWeapons, grenades, bullets, shootResult, pc, idx, frames>>

\* handleKeyDown, KeyQ: onDropWeapon
DropWeapon ==
    /\ pc = "idle"
    /\ LET r == dropWeapon(player, droppedWeapons)
       IN  IF KeysLive
           THEN player' = r.player /\ droppedWeapons' = r.droppedWeapons
           ELSE UNCHANGED <<player, droppedWeapons>>
    /\ UNCHANGED <<now, gameState, settings, input, targetCube, weaponPickupLocations,
                   weaponPickups, grenades, bullets, shootResult, pc, idx, frames>>

\* handleKeyDown, KeyE: onPickupWeapon
CheckPickup ==
    /\ pc = "idle"
    /\ LET r == checkPickup(player, droppedWeapons, weaponPickups, weaponPickupLocations)
       IN  IF KeysLive
           THEN /\ player' = r.player
                /\ droppedWeapons' = r.droppedWeapons
                /\ weaponPickups' = r.weaponPickups
           ELSE UNCHANGED <<player, droppedWeapons, weaponPickups>>
    /\ UNCHANGED <<now, gameState, settings, input, targetCube, weaponPickupLocations,
                   grenades, bullets, shootResult, pc, idx, frames>>

\* handleKeyDown, KeyG: onThrowGrenade
ThrowGrenade ==
    /\ pc = "idle"
    /\ LET r == throwGrenade(player, grenades)
       IN  IF KeysLive
           THEN player' = r.player /\ grenades' = r.grenades
           ELSE UNCHANGED <<player, grenades>>
    /\ UNCHANGED <<now, gameState, settings, input, targetCube, weaponPickupLocations,
                   weaponPickups, droppedWeapons, bullets, shootResult, pc, idx, frames>>

\* handleKeyDown, any other code (one of codes): this.keys[e.code] = true
KeyDown(codes) ==
    /\ pc = "idle"
    /\ \E code \in codes :
          input' = IF KeysLive THEN [input EXCEPT !.keys = @ \cup {code}] ELSE input
    /\ UNCHANGED <<now, gameState, settings, world, shootResult, pc, idx, frames>>

\* handleKeyUp
KeyUp(codes) ==
    /\ pc = "idle"
    /\ \E code \in codes : input' = [input EXCEPT !.keys = @ \ {code}]
    /\ UNCHANGED <<now, gameState, settings, world, shootResult, pc, idx, frames>>

(***************************************************************************)
(* SettingsManager: the sliders and checkboxes of the two menus.           *)
(***************************************************************************)
\* setupSlider, 'input' on a mouse sensitivity slider: the slider's value is one of values
SetMouseSensitivity(values) ==
    /\ pc = "idle"
    /\ \E value \in values : settings' = [settings EXCEPT !.mouseSensitivity = value]
    /\ UNCHANGED <<now, gameState, input, world, shootResult, pc, idx, frames>>

\* setupCheckbox, 'change' on an invert mouse checkbox
SetInvertMouse ==
    /\ pc = "idle"
    /\ \E checked \in BOOLEAN : settings' = [settings EXCEPT !.invertMouse = checked]
    /\ UNCHANGED <<now, gameState, input, world, shootResult, pc, idx, frames>>

(***************************************************************************)
(* GameState: the menu buttons; Game.restart.                              *)
(***************************************************************************)
\* playButton (shown with the main menu): startGame
PlayButton ==
    /\ pc = "idle"
    /\ gameState.isInMainMenu
    /\ gameState' = [gameState EXCEPT !.isInMainMenu = FALSE]
    /\ UNCHANGED <<now, settings, input, world, shootResult, pc, idx, frames>>

\* resumeButton (shown with the pause menu): resumeGame
ResumeButton ==
    /\ pc = "idle"
    /\ gameState.isPaused
    /\ gameState' = [gameState EXCEPT !.isPaused = FALSE]
    /\ UNCHANGED <<now, settings, input, world, shootResult, pc, idx, frames>>

\* WeaponSystemReset with a fault: the bullet list is not emptied
WeaponSystemResetKeepingBullets(locs, rot) ==
    [weaponPickups |-> FreshPickups(locs, rot),
     droppedWeapons |-> <<>>,
     grenades |-> <<>>,
     bullets |-> bullets]

\* WeaponSystem.reset, with rot the draws of its Math.random() calls: the pickups are mapped
\* anew from weaponPickupLocations as update has left it, the three lists are emptied
WeaponSystemReset(locs, rot) ==
    [weaponPickups |-> FreshPickups(locs, rot),
     droppedWeapons |-> <<>>,
     grenades |-> <<>>,
     bullets |-> <<>>]

\* Game.restart: player.reset(), targetCube.reset(), weaponSystem.reset(), resumeGame()
restart(gs) ==
    /\ player' = PlayerReset
    /\ targetCube' = CubeReset
    /\ \E rot \in RotationDraws :
          LET r == WeaponSystemReset(weaponPickupLocations, rot)
          IN  /\ weaponPickups' = r.weaponPickups
              /\ droppedWeapons' = r.droppedWeapons
              /\ grenades' = r.grenades
              /\ bullets' = r.bullets
    /\ gameState' = [gs EXCEPT !.isPaused = FALSE]
    /\ UNCHANGED <<now, settings, input, weaponPickupLocations, shootResult, pc, idx, frames>>

\* restartButton (shown with the pause menu): onRestart
RestartButton ==
    /\ pc = "idle"
    /\ gameState.isPaused
    /\ restart(gameState)

\* mainMenuButton (shown with the pause menu): returnToMainMenu, which ends in onRestart
MainMenuButton ==
    /\ pc = "idle"
    /\ gameState.isPaused
    /\ restart([gameState EXCEPT !.isPaused = FALSE, !.isInMainMenu = TRUE])

(***************************************************************************)
(* Game.update: one frame, step by step.  pc names the step to run next;   *)
(* no event is handled and the clock does not advance until the frame is   *)
(* through (JavaScript runs the callback to completion).                   *)
(***************************************************************************)
\* Game.update: the pause guard, getMouseMovement and player.update; the requestAnimationFrame
\* loop starts no frame once maxFrames frames have run
UpdatePlayer(maxFrames) ==
    /\ pc = "idle"
    /\ frames < maxFrames
    /\ ~(gameState.isPaused \/ gameState.isInMainMenu)
    /\ player' = PlayerUpdate(player, input.keys, input.mouseMovementX,
                              input.mouseMovementY, settings)
    /\ input' = [input EXCEPT !.mouseMovementX = 0, !.mouseMovementY = 0]
    /\ pc' = "cube"
    /\ frames' = frames + 1
    /\ UNCHANGED <<now, gameState, settings, targetCube, weaponPickupLocations, weaponPickups,
                   droppedWeapons, grenades, bullets, shootResult, idx>>

\* Game.update: targetCube.update()
UpdateCube ==
    /\ pc = "cube"
    /\ targetCube' = CubeUpdate(targetCube)
    /\ pc' = "collision"
    /\ UNCHANGED <<now, gameState, settings, input, player, weaponPickupLocations, weaponPickups,
                   droppedWeapons, grenades, bullets, shootResult, idx, frames>>

\* Game.update: player.handleCubeCollision(targetCube)
UpdateCollision ==
    /\ pc = "collision"
    /\ LET r == handleCubeCollision(player, targetCube)
       IN  player' = r.player /\ targetCube' = r.targetCube
    /\ pc' = "pickups"
    /\ UNCHANGED <<now, gameState, settings, input, weaponPickupLocations, weaponPickups,
                   droppedWeapons, grenades, bullets, shootResult, idx, frames>>

\* WeaponSystem.update: the weaponPickups.forEach loop
UpdatePickups ==
    /\ pc = "pickups"
    /\ weaponPickups' =
          [i \in 1..Len(weaponPickups) |->
              [weaponPickups[i] EXCEPT !.velocity =
                  PickupPhysics(weaponPickups[i], weaponPickupLocations[i].position,
                                player).velocity]]
    /\ weaponPickupLocations' =
          [i \in 1..Len(weaponPickups) |->
              [weaponPickupLocations[i] EXCEPT !.position =
                  PickupPhysics(weaponPickups[i], weaponPickupLocations[i].position,
                                player).position]]
    /\ pc' = "bullets"
    /\ idx' = Len(bullets)
    /\ UNCHANGED <<now, gameState, settings, input, player, targetCube, droppedWeapons,
                   grenades, bullets, shootResult, frames>>

\* BulletGone with a fault: the lifetime test is missing
BulletGoneOnGroundOnly(bullet, pos) == pos[2] <= 0

\* the bullet at idx is removed without a hit: it reached the ground, or its lifetime is over
BulletGone(bullet, pos) == pos[2] <= 0 \/ now >= bullet.lifetime

\* WeaponSystem.update: one pass of the bullet loop body, for bullets[idx]
UpdateBullet ==
    /\ pc = "bullets"
    /\ idx >= 1
    /\ LET bullet == bullets[idx]
           pos == <<bullet.position[1] + bullet.velocity[1],
                    bullet.position[2] + bullet.velocity[2],
                    bullet.position[3] + bullet.velocity[3]>>
           struck == BulletHit(targetCube, bullet)
       IN  IF BulletGone(bullet, pos)
           THEN bullets' = Remove(bullets, idx) /\ UNCHANGED targetCube
           ELSE IF BulletInCube(pos, targetCube)
           THEN /\ bullets' = Remove(bullets, idx)
                /\ IF struck.health <= 0
                   THEN \E rx, rz \in RandomCoords : targetCube' = BulletRespawn(struck, rx, rz)
                   ELSE targetCube' = struck
           ELSE bullets' = [bullets EXCEPT ![idx].position = pos] /\ UNCHANGED targetCube
    /\ idx' = idx - 1
    /\ UNCHANGED <<now, gameState, settings, input, player, weaponPickupLocations, weaponPickups,
                   droppedWeapons, grenades, shootResult, pc, frames>>

\* WeaponSystem.update: the bullet loop is through; the dropped-weapon loop
UpdateDropped ==
    /\ pc = "bullets"
    /\ idx = 0
    /\ droppedWeapons' = [i \in 1..Len(droppedWeapons) |-> DroppedPhysics(droppedWeapons[i])]
    /\ pc' = "grenades"
    /\ idx' = Len(grenades)
    /\ UNCHANGED <<now, gameState, settings, input, player, targetCube, weaponPickupLocations,
                   weaponPickups, grenades, bullets, shootResult, frames>>

\* FuseOver with a fault: only a grenade within the blast radius of the cube goes off
FuseOverInRangeOnly(grenade, c) ==
    now >= grenade.fuseTime /\ InBlast(BlastDistance(c, grenade))

\* the grenade (after its physics step) explodes in this pass: Date.now() >= grenade.fuseTime
FuseOver(grenade, c) == now >= grenade.fuseTime

\* WeaponSystem.update: one pass of the grenade loop body, for grenades[idx]
UpdateGrenade ==
    /\ pc = "grenades"
    /\ idx >= 1
    /\ LET grenade == GrenadePhysics(grenades[idx])
           dist == BlastDistance(targetCube, grenade)
           blown == Explosion(targetCube, grenade)
       IN  IF FuseOver(grenade, targetCube)
           THEN /\ grenades' = Remove(grenades, idx)
                /\ IF InBlast(dist)
                   THEN IF blown.health <= 0
                        THEN \E rx, rz \in RandomCoords :
                                targetCube' = GrenadeRespawn(blown, rx, rz)
                        ELSE targetCube' = blown
                   ELSE UNCHANGED targetCube
           ELSE grenades' = [grenades EXCEPT ![idx] = grenade] /\ UNCHANGED targetCube
    /\ idx' = idx - 1
    /\ UNCHANGED <<now, gameState, settings, input, player, weaponPickupLocations, weaponPickups,
                   droppedWeapons, bullets, shootResult, pc, frames>>

\* Game.update: the grenade loop is through (updateUI only writes the page)
UpdateDone ==
    /\ pc = "grenades"
    /\ idx = 0
    /\ pc' = "idle"
    /\ UNCHANGED <<now, gameState, settings, input, world, shootResult, idx, frames>>

\* Game.update, the steps of every frame (the bullet loop and the grenade loop have a
\* step of their own, UpdateBullet and UpdateGrenade, for each projectile in flight)
Update(maxFrames) ==
    \/ UpdatePlayer(maxFrames)
    \/ UpdateCube
    \/ UpdateCollision
    \/ UpdatePickups
    \/ UpdateDropped
    \/ UpdateDone

(***************************************************************************)
(* Play in progress.  Walking to a weapon takes hundreds of frames         *)
(* (Player.update moves the player some 0.06 a frame), so three of the     *)
(* specifications below start in the middle of a game: the player has      *)
(* walked somewhere, the pickups and the cube have fallen to the ground    *)
(* and lie still.                                                          *)
(***************************************************************************)
\* GameState once Play was clicked and the browser granted the pointer lock
Running == [isPointerLocked |-> TRUE, isPaused |-> FALSE, isInMainMenu |-> FALSE]

\* the pickup locations once update has dropped every pickup to its groundHeight
SettledLocations ==
    [i \in 1..Len(ConfiguredPickupLocations) |->
        [ConfiguredPickupLocations[i] EXCEPT !.position[2] = 150]]

\* the pickups lying still, those of the set taken already collected
SettledPickups(taken) ==
    [i \in 1..Len(ConfiguredPickupLocations) |->
        [FreshPickups(SettledLocations, <<0, 0, 0>>)[i] EXCEPT !.picked = (i \in taken)]]

\* the cube once TargetCube.update has dropped it to the ground
SettledCube == [CubeReset EXCEPT !.position[2] = initialCubeState.size \div 2]

\* the player standing at (x, z)
Standing(x, z) == [PlayerReset EXCEPT !.position = <<x, physics.playerHeight, z>>, !.onGround = TRUE]

\* a weapon lying still on the ground at (x, z)
Lying(type, ammo, x, z) ==
    [type |-> type, ammo |-> ammo, position |-> <<x, 500, z>>, velocity |-> <<0, 0, 0>>]

\* what every scenario shares: the clock, the input, no projectile, no frame under way
Quiet ==
    /\ now = PageLoadTime
    /\ gameState = Running
    /\ settings = defaultSettings
    /\ input = [keys |-> {}, mouseMovementX |-> 0, mouseMovementY |-> 0]
    /\ weaponPickupLocations = SettledLocations
    /\ grenades = <<>>
    /\ bullets = <<>>
    /\ shootResult = "none"
    /\ pc = "idle"
    /\ idx = 0
    /\ frames = 0

(***************************************************************************)
(* The range: firing.  The player stands one unit from the third pickup    *)
(* point; the pistol of the first point, fired down to its last round, was *)
(* dropped here.                                                           *)
(***************************************************************************)
InitRange ==
    /\ Quiet
    /\ player = Standing(0, -9000)
    /\ targetCube = SettledCube
    /\ weaponPickups = SettledPickups({1})
    /\ droppedWeapons = <<Lying("pistol", 1, 1000, -9000)>>

\* no frame of SpecFire starts once this many have run
MaxFireFrames == 2

\* the clock of SpecFire stops this many milliseconds after page load
MaxFireClock == 600

NextFire ==
    \/ Tick({100}, MaxFireClock)
    \/ MouseDownLeft
    \/ WeaponSwitch
    \/ DropWeapon
    \/ CheckPickup
    \/ Update(MaxFireFrames)
    \/ UpdateBullet

SpecFire == InitRange /\ [][NextFire]_vars

(***************************************************************************)
(* The armoury: the inventory.  Three weapons for two slots, at the third   *)
(* pickup point: the pistol (one round left) and the rifle of the first    *)
(* two points were carried here, and are still carried, or were dropped.   *)
(***************************************************************************)
InitArmoury ==
    /\ Quiet
    /\ targetCube = SettledCube
    /\ weaponPickups = SettledPickups({1, 2})
    /\ \/ /\ player = [Standing(0, -9000) EXCEPT
                          !.weapons[0] = [type |-> "pistol", ammo |-> 1],
                          !.weapons[1] = [type |-> "rifle", ammo |-> weaponTypes["rifle"].maxAmmo]]
          /\ droppedWeapons = <<>>
       \/ /\ player = Standing(0, -9000)
          /\ droppedWeapons = <<Lying("pistol", 1, 1000, -9000),
                                Lying("rifle", weaponTypes["rifle"].maxAmmo, -1000, -9000)>>

\* no frame of SpecInventory starts once this many have run
MaxInventoryFrames == 2

\* the clock of SpecInventory stops this many milliseconds after page load
MaxInventoryClock == 300

NextInventory ==
    \/ Tick({300}, MaxInventoryClock)
    \/ MouseDownLeft
    \/ WeaponSwitch
    \/ DropWeapon
    \/ CheckPickup
    \/ PauseKey
    \/ ResumeButton
    \/ RestartButton
    \/ Update(MaxInventoryFrames)
    \/ UpdateBullet

SpecInventory == InitArmoury /\ [][NextInventory]_vars

(***************************************************************************)
(* The cube: bullets and grenades.  The player stands 1.06 from the cube   *)
(* and holds the rifle of the second pickup point.                         *)
(***************************************************************************)
\* the cube's health when the scenario starts: untouched, or 36.35 left (a rifle hit and
\* a grenade at distance 1.135 leave 100 - 25 - 38.65)
CubeHealths == {100000, 36350}

\* the player's pitch when the scenario starts: level, or down at the cube (what a mouse
\* movement of 196 leaves, see MouseMove and PlayerUpdate)
Aims == {0, -784}

InitCube ==
    /\ Quiet
    /\ \E pitch \in Aims :
          player = [Standing(0, -3940) EXCEPT
                       !.rotation = <<0, pitch>>,
                       !.weapons[0] = [type |-> "rifle", ammo |-> weaponTypes["rifle"].maxAmmo]]
    /\ \E h \in CubeHealths : targetCube = [SettledCube EXCEPT !.health = h]
    /\ weaponPickups = SettledPickups({2})
    /\ droppedWeapons = <<>>

\* no frame of SpecBullets starts once this many have run
MaxBulletFrames == 3

\* the clock of SpecBullets stops this many milliseconds after page load
MaxBulletClock == 6000

\* the player aims and fires; the game is paused and resumed
NextBullets ==
    \/ Tick({3000}, MaxBulletClock)
    \/ MouseMove({<<0, 196>>})
    \/ MouseDownLeft
    \/ PauseKey
    \/ ResumeButton
    \/ Update(MaxBulletFrames)
    \/ UpdateBullet

SpecBullets == InitCube /\ [][NextBullets]_vars

\* no frame of SpecCombat starts once this many have run
MaxCombatFrames == 2

\* the clock of SpecCombat stops this many milliseconds after page load
MaxCombatClock == 3000

\* the player fires, throws grenades and drops the rifle; the game is paused and restarted
NextCombat ==
    \/ Tick({3000}, MaxCombatClock)
    \/ MouseDownLeft
    \/ ThrowGrenade
    \/ DropWeapon
    \/ PauseKey
    \/ ResumeButton
    \/ RestartButton
    \/ Update(MaxCombatFrames)
    \/ UpdateBullet
    \/ UpdateGrenade

SpecCombat == InitCube /\ [][NextCombat]_vars

(***************************************************************************)
(* The menus, from new Game().                                             *)
(***************************************************************************)
\* no frame of SpecMenus starts once this many have run
MaxMenuFrames == 2

\* the clock of SpecMenus stops this many milliseconds after page load
MaxMenuClock == 3000

NextMenus ==
    \/ Tick({3000}, MaxMenuClock)
    \/ PointerLockChange
    \/ PlayButton
    \/ PauseKey
    \/ ResumeButton
    \/ RestartButton
    \/ MainMenuButton
    \/ MouseDownLeft
    \/ ThrowGrenade
    \/ Update(MaxMenuFrames)
    \/ UpdateGrenade

SpecMenus == Init /\ [][NextMenus]_vars

(***************************************************************************)
(* Looking around: the mouse and the settings.  The player stands at the   *)
(* spawn point, away from the cube and the pickups.                        *)
(***************************************************************************)
InitLook ==
    /\ Quiet
    /\ player = Standing(initialPlayerState.position[1], initialPlayerState.position[3])
    /\ targetCube = SettledCube
    /\ weaponPickups = SettledPickups({})
    /\ droppedWeapons = <<>>

\* the values the mouse sensitivity slider is set to: 0.5, 2.0 (the default), 10.0
Sensitivities == {500, 2000, 10000}

\* the (movementX, movementY) of the mousemove events: small, large and huge movements
LookDeltas == {<<3, -2>>, <<0, 300>>, <<0, -300>>, <<0, 100000>>, <<0, -100000>>}

\* no frame of SpecLook starts once this many have run
MaxLookFrames == 3

NextLook ==
    \/ MouseMove(LookDeltas)
    \/ SetMouseSensitivity(Sensitivities)
    \/ SetInvertMouse
    \/ PauseKey
    \/ ResumeButton
    \/ Update(MaxLookFrames)

SpecLook == InitLook /\ [][NextLook]_vars

(***************************************************************************)
(* The cube coming to rest.  Hits have turned the cube; its last frame on  *)
(* the ground found it nearly at rest and stopped it, with the rotation it *)
(* had.  The player stands at the spawn point, ten units away, and does    *)
(* not fire.                                                               *)
(***************************************************************************)
\* the rotations the cube was stopped with: none is a multiple of pi/2 on every axis
RestRotations == {<<300, 0, -700>>, <<785, 2000, -12>>, <<-786, 4000, 1581>>}

InitRest ==
    /\ Quiet
    /\ player = Standing(initialPlayerState.position[1], initialPlayerState.position[3])
    /\ \E rot \in RestRotations : targetCube = [SettledCube EXCEPT !.rotation = rot]
    /\ weaponPickups = SettledPickups({})
    /\ droppedWeapons = <<>>

\* no frame of SpecRest starts once this many have run
MaxRestFrames == 40

NextRest ==
    \/ PauseKey
    \/ ResumeButton
    \/ Update(MaxRestFrames)

SpecRest == InitRest /\ [][NextRest]_vars

(***************************************************************************)
(* Grenades in flight.  The player stands 1.06 from the cube, looking      *)
(* level or with the pitch at pi/2, and throws; no fuse runs out.          *)
(***************************************************************************)
\* the player's pitch when the scenario starts: level, or at the clamp
LobPitches == {0, HalfPi}

InitLob ==
    /\ Quiet
    /\ \E pitch \in LobPitches : player = [Standing(0, -3940) EXCEPT !.rotation = <<0, pitch>>]
    /\ targetCube = SettledCube
    /\ weaponPickups = SettledPickups({})
    /\ droppedWeapons = <<>>

\* no frame of SpecLob starts once this many have run
MaxLobFrames == 6

NextLob ==
    \/ ThrowGrenade
    \/ PauseKey
    \/ ResumeButton
    \/ Update(MaxLobFrames)
    \/ UpdateGrenade

SpecLob == InitLob /\ [][NextLob]_vars

(***************************************************************************)
(* Bodies on top of each other.  The cube was pushed along the z axis to   *)
(* the third pickup point and lies still there; the player stands at the   *)
(* very same point, or half a unit before it.                              *)
(***************************************************************************)
\* how far before the pickup point the player stands
Offsets == {0, 500}

InitOverlap ==
    /\ Quiet
    /\ \E d \in Offsets :
          player = Standing(SettledLocations[3].position[1], SettledLocations[3].position[3] + d)
    /\ targetCube = [SettledCube EXCEPT !.position[1] = SettledLocations[3].position[1],
                                        !.position[3] = SettledLocations[3].position[3]]
    /\ weaponPickups = SettledPickups({})
    /\ droppedWeapons = <<>>

\* no frame of SpecOverlap starts once this many have run
MaxOverlapFrames == 3

NextOverlap ==
    \/ MouseMove({<<40, 0>>, <<0, 25>>})
    \/ CheckPickup
    \/ PauseKey
    \/ ResumeButton
    \/ Update(MaxOverlapFrames)

SpecOverlap == InitOverlap /\ [][NextOverlap]_vars

(***************************************************************************)
(* Jumping and crouching.  The player is at the spawn point, standing, or  *)
(* coming down from a jump with the jump key still held.                   *)
(***************************************************************************)
\* the player 66 frames after a jump from standing (Player.update run 66 times with Space
\* held): three frames above the ground, falling
Falling ==
    [Standing(initialPlayerState.position[1], initialPlayerState.position[3]) EXCEPT
        !.position[2] = 1846,
        !.velocity = <<0, -36, 0>>,
        !.onGround = FALSE,
        !.jumpPressed = TRUE]

InitMove ==
    /\ now = PageLoadTime
    /\ gameState = Running
    /\ settings = defaultSettings
    /\ \/ /\ player = Standing(initialPlayerState.position[1], initialPlayerState.position[3])
          /\ input = [keys |-> {}, mouseMovementX |-> 0, mouseMovementY |-> 0]
       \/ /\ player = Falling
          /\ input = [keys |-> {"Space"}, mouseMovementX |-> 0, mouseMovementY |-> 0]
    /\ targetCube = SettledCube
    /\ weaponPickupLocations = SettledLocations
    /\ weaponPickups = SettledPickups({})
    /\ droppedWeapons = <<>>
    /\ grenades = <<>>
    /\ bullets = <<>>
    /\ shootResult = "none"
    /\ pc = "idle"
    /\ idx = 0
    /\ frames = 0

\* the keys pressed and released: jump and crouch
MoveKeys == {"Space", "ControlLeft"}

\* no frame of SpecMove starts once this many have run
MaxMoveFrames == 5

NextMove ==
    \/ KeyDown(MoveKeys)
    \/ KeyUp(MoveKeys)
    \/ Update(MaxMoveFrames)

SpecMove == InitMove /\ [][NextMove]_vars

(***************************************************************************)
(* Collecting a pickup point.  The player stands next to the third pickup  *)
(* point, near enough to collect it, or near enough to push it as well.    *)
(***************************************************************************)
\* how far the player stands from the point: within the push radius 0.8, or only within the
\* pickup radius 2
Reaches == {500, 1500}

InitCollect ==
    /\ Quiet
    /\ \E d \in Reaches :
          player = Standing(SettledLocations[3].position[1], SettledLocations[3].position[3] + d)
    /\ targetCube = SettledCube
    /\ weaponPickups = SettledPickups({})
    /\ droppedWeapons = <<>>

\* no frame of SpecCollect starts once this many have run
MaxCollectFrames == 3

NextCollect ==
    \/ CheckPickup
    \/ DropWeapon
    \/ PauseKey
    \/ ResumeButton
    \/ RestartButton
    \/ Update(MaxCollectFrames)

SpecCollect == InitCollect /\ [][NextCollect]_vars

(***************************************************************************)
(* Input while the game is paused or in the main menu.  The scenarios of   *)
(* SpecInventory, with every input event and every menu button.            *)
(***************************************************************************)
\* no frame of SpecPaused starts once this many have run
MaxPausedFrames == 1

NextPaused ==
    \/ PointerLockChange
    \/ MouseDownLeft
    \/ WeaponSwitch
    \/ DropWeapon
    \/ CheckPickup
    \/ ThrowGrenade
    \/ PlayButton
    \/ PauseKey
    \/ ResumeButton
    \/ RestartButton
    \/ MainMenuButton
    \/ Update(MaxPausedFrames)
    \/ UpdateBullet
    \/ UpdateGrenade

SpecPaused == InitArmoury /\ [][NextPaused]_vars

(***************************************************************************)
(* Bodies and their floors.  Either the game was started 13 frames ago and  *)
(* the cube and the pickups are still coming down, or everything has       *)
(* settled and the player crouches at the spawn point, looking straight up *)
(* or down, with a rifle in hand and a pistol about to land.               *)
(***************************************************************************)
\* the player crouching at (x, z), the crouch key held
Crouching(x, z) ==
    [Standing(x, z) EXCEPT !.position[2] = 1200, !.isCrouching = TRUE, !.targetHeight = 1200]

\* a weapon dropped 38 frames ago from (x, z) by a player at yaw 0: one frame above its floor
Landing(type, ammo, x, z) ==
    [type |-> type, ammo |-> ammo,
     position |-> <<x, 595, z - 2000 - 38 * 100>>,
     velocity |-> <<0, -90, -100>>]

\* the player's pitch in the second scenario: straight up or straight down
SteepPitches == {HalfPi, -HalfPi}

InitFloors ==
    /\ now = PageLoadTime
    /\ gameState = Running
    /\ settings = defaultSettings
    /\ grenades = <<>>
    /\ bullets = <<>>
    /\ shootResult = "none"
    /\ pc = "idle"
    /\ idx = 0
    /\ frames = 0
    /\ \/ /\ input = [keys |-> {}, mouseMovementX |-> 0, mouseMovementY |-> 0]
          /\ player = Standing(initialPlayerState.position[1], initialPlayerState.position[3])
          /\ targetCube = [CubeReset EXCEPT !.position[2] = 545, !.velocity[2] = -65]
          /\ weaponPickupLocations =
                [i \in 1..Len(ConfiguredPickupLocations) |->
                    [ConfiguredPickupLocations[i] EXCEPT !.position[2] = 545]]
          /\ weaponPickups =
                [i \in 1..Len(ConfiguredPickupLocations) |->
                    [FreshPickups(ConfiguredPickupLocations, <<0, 0, 0>>)[i] EXCEPT
                        !.velocity[2] = -65]]
          /\ droppedWeapons = <<>>
       \/ /\ input = [keys |-> {"ControlLeft"}, mouseMovementX |-> 0, mouseMovementY |-> 0]
          /\ \E pitch \in SteepPitches :
                player = [Crouching(initialPlayerState.position[1],
                                    initialPlayerState.position[3]) EXCEPT
                             !.rotation = <<0, pitch>>,
                             !.weapons[0] = [type |-> "rifle",
                                             ammo |-> weaponTypes["rifle"].maxAmmo]]
          /\ targetCube = SettledCube
          /\ weaponPickupLocations = SettledLocations
          /\ weaponPickups = SettledPickups({2})
          /\ droppedWeapons = <<Landing("pistol", 1, initialPlayerState.position[1],
                                        initialPlayerState.position[3])>>

\* no frame of SpecFloors starts once this many have run: the cube lands in the first, the
\* pickups in the fifth
MaxFloorFrames == 5

NextFloors ==
    \/ ThrowGrenade
    \/ MouseDownLeft
    \/ DropWeapon
    \/ PauseKey
    \/ ResumeButton
    \/ Update(MaxFloorFrames)
    \/ UpdateBullet
    \/ UpdateGrenade

SpecFloors == InitFloors /\ [][NextFloors]_vars

(***************************************************************************)
(* The inventory claims, under SpecInventory.                              *)
(***************************************************************************)
\* C1: in every state, the ammo of every weapon held in a slot and of every dropped weapon
\* is within 0..max_ammo of its kind; it is never negative.
C1_AmmoWithinMax ==
    /\ \A s \in {0, 1} :
          player.weapons[s] # NoWeapon =>
              /\ player.weapons[s].ammo >= 0
              /\ player.weapons[s].ammo <= weaponTypes[player.weapons[s].type].maxAmmo
    /\ \A i \in 1..Len(droppedWeapons) :
          /\ droppedWeapons[i].ammo >= 0
          /\ droppedWeapons[i].ammo <= weaponTypes[droppedWeapons[i].type].maxAmmo

\* C1's case: the pistol was fired empty and dropped, and the rifle held has been fired
C1_EmptyPistolDropped ==
    /\ \E i \in 1..Len(droppedWeapons) :
          droppedWeapons[i].type = "pistol" /\ droppedWeapons[i].ammo = 0
    /\ \E s \in {0, 1} :
          /\ player.weapons[s].type = "rifle"
          /\ player.weapons[s].ammo = weaponTypes["rifle"].maxAmmo - 1
    /\ shootResult = "false"

\* C2: the active slot index is 0 or 1 in every state, whatever switches, drops, pickups,
\* check-pickup passes and resets have run.
C2_ActiveSlotZeroOrOne == player.currentWeapon \in {0, 1}

\* C2's case: slot 1 is the active one, both slots hold a weapon, the third pickup point
\* has been collected and a weapon lies on the ground
C2_SecondSlotActive ==
    /\ player.currentWeapon = 1
    /\ player.weapons[0] # NoWeapon
    /\ player.weapons[1] # NoWeapon
    /\ weaponPickups[3].picked
    /\ droppedWeapons # <<>>

\* C3: whenever both slots are occupied, pickupWeapon (of either kind) puts the active
\* weapon on the ground as exactly one new dropped weapon of the same kind and the same
\* ammo, leaves the new weapon with full ammo in the active slot, and changes neither the
\* active slot index nor the other slot.
C3_FullSlotsPickupSwaps ==
    (player.weapons[0] # NoWeapon /\ player.weapons[1] # NoWeapon) =>
        \A kind \in WeaponKinds :
            LET active == player.currentWeapon
                held == player.weapons[active]
                r == pickupWeapon(player, droppedWeapons, kind)
                n == Len(droppedWeapons)
            IN  /\ Len(r.droppedWeapons) = n + 1
                /\ \A i \in 1..n : r.droppedWeapons[i] = droppedWeapons[i]
                /\ r.droppedWeapons[n + 1].type = held.type
                /\ r.droppedWeapons[n + 1].ammo = held.ammo
                /\ r.player.weapons[active] =
                       [type |-> kind, ammo |-> IF kind = "pistol" THEN 12 ELSE 30]
                /\ r.player.currentWeapon = active
                /\ r.player.weapons[1 - active] = player.weapons[1 - active]

\* C3's case: with the pistol (one round) active and the rifle in the other slot, KeyE at
\* the third pickup point has swapped the pistol for the point's full pistol
C3_PistolSwapped ==
    /\ weaponPickups[3].picked
    /\ player.currentWeapon = 0
    /\ player.weapons[0] = [type |-> "pistol", ammo |-> 12]
    /\ player.weapons[1] = [type |-> "rifle", ammo |-> 30]
    /\ Len(droppedWeapons) = 1
    /\ droppedWeapons[1].type = "pistol"
    /\ droppedWeapons[1].ammo = 1
    /\ droppedWeapons[1].position = <<0, 500, -11000>>

(***************************************************************************)
(* The firing claims, under SpecFire.                                      *)
(***************************************************************************)
\* C4: a call of shoot (a left mouse button press with the pointer locked and the game not
\* paused) made while the active slot is empty, or less than the active weapon's fire-rate
\* interval after the last accepted shot, or with no ammo in the active weapon, returns
\* false and changes nothing: not the ammo, the last-shot time or the slots (the player),
\* not the bullets, nor anything else.
C4_RejectedShotChangesNothing ==
    [][(/\ MouseDownLeft
        /\ gameState.isPointerLocked
        /\ ~gameState.isPaused
        /\ LET w == player.weapons[player.currentWeapon]
           IN  \/ w = NoWeapon
               \/ now - player.lastShot < (IF w.type = "pistol" THEN 300 ELSE 150)
               \/ w.ammo = 0)
       => (/\ shootResult' = "false"
           /\ player' = player
           /\ bullets' = bullets
           /\ <<now, gameState, settings, input, world>>' =
                  <<now, gameState, settings, input, world>>)]_vars

\* C4's case: the pistol in the active slot is empty, the fire-rate interval has passed
\* since its last round was fired, and the last call of shoot returned false
C4_EmptyPistolRefused ==
    /\ shootResult = "false"
    /\ player.weapons[player.currentWeapon] = [type |-> "pistol", ammo |-> 0]
    /\ now - player.lastShot >= 300
    /\ Len(bullets) = 1

\* C5: a call of shoot with a weapon in the active slot and ammo left in it is accepted
\* exactly when at least the weapon's fire-rate interval has passed since the last accepted
\* shot; an accepted shot takes exactly 1 from the ammo, adds exactly one bullet and records
\* its time, a refused one changes nothing.  And the pistol picked up with 12 rounds has at
\* least 11 left before 300 ms have passed, 10 before 600 ms, 9 at 600 ms.
C5_AcceptedAfterInterval ==
    /\ [][(/\ MouseDownLeft
           /\ gameState.isPointerLocked
           /\ ~gameState.isPaused
           /\ player.weapons[player.currentWeapon] # NoWeapon
           /\ player.weapons[player.currentWeapon].ammo > 0)
          => LET w == player.weapons[player.currentWeapon]
                 interval == IF w.type = "pistol" THEN 300 ELSE 150
             IN  IF now - player.lastShot >= interval
                 THEN /\ shootResult' = "true"
                      /\ player'.weapons[player.currentWeapon].ammo = w.ammo - 1
                      /\ player'.weapons[1 - player.currentWeapon] =
                             player.weapons[1 - player.currentWeapon]
                      /\ player'.lastShot = now
                      /\ Len(bullets') = Len(bullets) + 1
                      /\ \A i \in 1..Len(bullets) : bullets'[i] = bullets[i]
                 ELSE /\ shootResult' = "false"
                      /\ player' = player
                      /\ bullets' = bullets]_vars
    /\ [](\A s \in {0, 1} :
             (player.weapons[s].type = "pistol" /\ player.weapons[s].ammo > 1)
                 => player.weapons[s].ammo >= 11 - (now - PageLoadTime) \div 300)

\* C5's case: the scenario's end.  The pistol picked up with 12 rounds, fired at 0 ms, at
\* 300 ms and at 600 ms (no frame has run: the three bullets are where they started), holds 9
C5_NineLeftAt600 ==
    /\ now = PageLoadTime + 600
    /\ player.lastShot = now
    /\ shootResult = "true"
    /\ player.weapons[player.currentWeapon] = [type |-> "pistol", ammo |-> 9]
    /\ Len(bullets) = 3
    /\ frames = 0

(***************************************************************************)
(* The bullet lifetime, under SpecBullets.                                 *)
(***************************************************************************)
\* C6 as stated: at no time is a bullet in the list later than 3000 ms after it was fired
\* (its lifetime field is the time it was fired plus 3000).
C6_NoBulletPastLifetime == \A i \in 1..Len(bullets) : now <= bullets[i].lifetime

\* C6, amended: the bullet loop of an update pass removes every bullet whose 3000 ms are
\* over.  While the loop runs, the bullets it has passed (those above idx) are all younger
\* than 3000 ms; once it is through, all bullets are, to the end of the pass.
C6_PassRemovesExpiredBullets ==
    /\ pc = "bullets" => \A i \in (idx + 1)..Len(bullets) : now < bullets[i].lifetime
    /\ pc = "grenades" => \A i \in 1..Len(bullets) : now < bullets[i].lifetime

\* C6's case: the one bullet, fired level from the scenario's rifle (it flies above the
\* cube and never comes down), was in the list when the first frame began 3000 ms or more
\* after the shot, and that frame's bullet loop has removed it
C6_LevelBulletExpired ==
    /\ pc = "grenades"
    /\ frames = 1
    /\ bullets = <<>>
    /\ player.rotation = <<0, 0>>
    /\ player.weapons[0] = [type |-> "rifle", ammo |-> 29]
    /\ now >= player.lastShot + 3000
    /\ ~targetCube.hit

(***************************************************************************)
(* The cube's damage, under SpecCombat.                                    *)
(***************************************************************************)
\* C7 as stated, its last part: between frames the cube's health is within 1..100
\* (thousandths here: 1000..100000).
C7_HealthAtLeastOne ==
    pc = "idle" => (targetCube.health >= 1000 /\ targetCube.health <= 100000)

\* C7, amended: the step of the bullet loop or of the grenade loop whose damage brings the
\* cube's health to 0 or below leaves the cube, in the same step, inside the square (x and z
\* within -10..10) at height size / 2 with health exactly 100; and between frames the
\* health is above 0 and at most 100.
C7_KillRespawnsInSameStep ==
    /\ [][(\/ /\ pc = "bullets"
              /\ idx >= 1
              /\ LET bullet == bullets[idx]
                     pos == <<bullet.position[1] + bullet.velocity[1],
                              bullet.position[2] + bullet.velocity[2],
                              bullet.position[3] + bullet.velocity[3]>>
                 IN  /\ pos[2] > 0
                     /\ now < bullet.lifetime
                     /\ BulletInCube(pos, targetCube)
                     /\ targetCube.health - bullet.damage <= 0
           \/ /\ pc = "grenades"
              /\ idx >= 1
              /\ LET grenade == GrenadePhysics(grenades[idx])
                     dist == BlastDistance(targetCube, grenade)
                 IN  /\ now >= grenade.fuseTime
                     /\ dist < 5000
                     /\ targetCube.health - (50000 - 10 * dist) <= 0)
          => /\ targetCube'.health = 100000
             /\ targetCube'.position[1] \in -10000..10000
             /\ targetCube'.position[2] = 500
             /\ targetCube'.position[3] \in -10000..10000]_vars
    /\ [](pc = "idle" => (targetCube.health > 0 /\ targetCube.health <= 100000))

\* C7's case: no grenade was thrown and there was no restart; the rifle's second hit
\* brought the health to 0 or below, and the cube is somewhere else with health 100
C7_CubeRespawnedAfterBulletKill ==
    /\ player.grenades = 3
    /\ grenades = <<>>
    /\ player.position[3] = -3940
    /\ player.weapons[0] = [type |-> "rifle", ammo |-> 28]
    /\ targetCube.hit
    /\ targetCube.health = 100000
    /\ targetCube.position # <<0, 500, -5000>>
    /\ targetCube.position[2] = 500

\* C8: a grenade that explodes at distance d from the cube's centre takes 50 * (1 - d / 5)
\* from the cube's health when d < 5 (the cube then has what is left, or 100 after the
\* respawn when nothing is left), and leaves the cube as it was when d >= 5; the damage is
\* above 0 and at most 50.
C8_BlastDamageFallsOff ==
    [][(pc = "grenades" /\ idx >= 1 /\ now >= grenades[idx].fuseTime)
       => LET grenade == GrenadePhysics(grenades[idx])
              dx == targetCube.position[1] - grenade.position[1]
              dy == targetCube.position[2] - grenade.position[2]
              dz == targetCube.position[3] - grenade.position[3]
              d == Sqrt(dx * dx + dy * dy + dz * dz)
              damage == 50000 - 10 * d
          IN  IF d >= 5000
              THEN targetCube' = targetCube
              ELSE /\ damage > 0
                   /\ damage <= 50000
                   /\ targetCube'.health =
                          IF targetCube.health - damage > 0
                          THEN targetCube.health - damage
                          ELSE 100000]_vars

\* C8's case: three grenades went off in one pass.  Two have exploded within 5 of the cube
\* (the second killed it: it is respawned elsewhere), the third is due now, 5 or more away
C8_ThirdBlastOutOfRange ==
    /\ pc = "grenades"
    /\ idx = 1
    /\ Len(grenades) = 1
    /\ player.grenades = 0
    /\ now >= grenades[1].fuseTime
    /\ BlastDistance(targetCube, GrenadePhysics(grenades[1])) >= 5000
    /\ targetCube.hit
    /\ targetCube.hitTime = now
    /\ targetCube.health = 100000

(***************************************************************************)
(* Reset: Game.restart, from the Restart and the Main Menu button.         *)
(***************************************************************************)
\* C9 (under SpecCombat): a restart leaves no bullet, no grenade and no dropped weapon,
\* both slots empty, slot 0 active, 3 grenades to throw, and the cube at its initial
\* position with health 100, no velocity and no spin; and the three resets, run once more
\* on the state they left, would leave it again (but for the pickups' random rotation).
C9_ResetRestoresAndRepeats ==
    [][(RestartButton \/ MainMenuButton)
       => /\ bullets' = <<>>
          /\ grenades' = <<>>
          /\ droppedWeapons' = <<>>
          /\ player'.weapons[0] = NoWeapon
          /\ player'.weapons[1] = NoWeapon
          /\ player'.currentWeapon = 0
          /\ player'.grenades = 3
          /\ targetCube'.position = <<0, 1000, -5000>>
          /\ targetCube'.health = 100000
          /\ targetCube'.velocity = <<0, 0, 0>>
          /\ targetCube'.angularVelocity = <<0, 0, 0>>
          /\ player' = PlayerReset
          /\ targetCube' = CubeReset
          /\ \A rot \in RotationDraws :
                LET again == WeaponSystemReset(weaponPickupLocations', rot)
                IN  /\ again.bullets = bullets'
                    /\ again.grenades = grenades'
                    /\ again.droppedWeapons = droppedWeapons'
                    /\ \A i \in 1..Len(weaponPickups') :
                          [again.weaponPickups[i] EXCEPT !.rotation = 0] =
                              [weaponPickups'[i] EXCEPT !.rotation = 0]]_vars

\* C9's case: after a shot was fired and a frame has run, the game was restarted: the
\* player is back at the spawn point without the rifle, the second pickup point is
\* unpicked again
C9_RestartedAfterShot ==
    /\ shootResult = "true"
    /\ frames >= 1
    /\ player.position = <<0, 1700, 5000>>
    /\ player.weapons[0] = NoWeapon
    /\ player.weapons[1] = NoWeapon
    /\ player.grenades = 3
    /\ bullets = <<>>
    /\ grenades = <<>>
    /\ droppedWeapons = <<>>
    /\ targetCube.position = <<0, 1000, -5000>>
    /\ targetCube.health = 100000
    /\ ~weaponPickups[2].picked
    /\ ~gameState.isPaused

\* C10 as stated (under SpecMenus): a restart leaves every pickup point unpicked, without
\* velocity, at its configured position.
C10_ResetReturnsPickupsToSpawn ==
    [][(RestartButton \/ MainMenuButton)
       => \A i \in 1..Len(weaponPickups') :
             /\ ~weaponPickups'[i].picked
             /\ weaponPickups'[i].velocity = <<0, 0, 0>>
             /\ weaponPickupLocations'[i].position = ConfiguredPickupLocations[i].position]_vars

(***************************************************************************)
(* KeyE: the check-pickup pass, under SpecFire.                            *)
(***************************************************************************)
\* C11 as stated: one check-pickup pass (one KeyE press) consumes at most one source: the
\* pickup points it marks picked and the weapons it takes off the ground are, together, at
\* most one.
C11_OneSourcePerPass ==
    [][CheckPickup
       => LET marked == {i \in 1..Len(weaponPickups) :
                            ~weaponPickups[i].picked /\ weaponPickups'[i].picked}
              taken == {i \in 1..Len(droppedWeapons) :
                           \A k \in 1..Len(droppedWeapons') :
                               droppedWeapons'[k] # droppedWeapons[i]}
          IN  Cardinality(marked) + Cardinality(taken) <= 1]_vars

(***************************************************************************)
(* Pickup, drop and grenade throw, under SpecInventory and SpecCombat.     *)
(***************************************************************************)
\* C12 (under SpecInventory): in every state, picking up a weapon (pickupWeapon with either
\* kind, or the placement of a weapon taken off the ground, whatever its ammo) does one of
\* three things.  Active slot empty: the weapon goes there, the index stays.  Else other
\* slot empty: the weapon goes to the other slot and the index switches to it.  Else: the
\* active weapon is dropped and the weapon goes to the active slot, the index stays.  The
\* slot the weapon did not go to keeps what it held, and only in the third case does the
\* dropped-weapon list change.
C12_PickupThreeWay ==
    \A weapon \in {[type |-> "pistol", ammo |-> 12], [type |-> "rifle", ammo |-> 30],
                   [type |-> "pistol", ammo |-> 1], [type |-> "rifle", ammo |-> 0]} :
        LET active == player.currentWeapon
            other == 1 - active
            r == IF weapon.ammo = weaponTypes[weapon.type].maxAmmo
                 THEN pickupWeapon(player, droppedWeapons, weapon.type)
                 ELSE PlaceWeapon(player, droppedWeapons, weapon)
        IN  IF player.weapons[active] = NoWeapon
            THEN /\ r.player.weapons[active] = weapon
                 /\ r.player.currentWeapon = active
                 /\ r.player.weapons[other] = player.weapons[other]
                 /\ r.droppedWeapons = droppedWeapons
            ELSE IF player.weapons[other] = NoWeapon
            THEN /\ r.player.weapons[other] = weapon
                 /\ r.player.currentWeapon = other
                 /\ r.player.weapons[active] = player.weapons[active]
                 /\ r.droppedWeapons = droppedWeapons
            ELSE /\ r.player.weapons[active] = weapon
                 /\ r.player.currentWeapon = active
                 /\ r.player.weapons[other] = player.weapons[other]
                 /\ Len(r.droppedWeapons) = Len(droppedWeapons) + 1
                 /\ r.droppedWeapons[Len(droppedWeapons) + 1].type = player.weapons[active].type

\* C12's case: the second branch was taken.  The rifle of slot 1 was dropped and slot 0 (the
\* pistol with one round) made active again; KeyE at the third pickup point then put the
\* point's pistol in the empty slot 1 and made it the active slot; slot 0 kept its pistol
C12_PistolInOtherSlot ==
    /\ weaponPickups[3].picked
    /\ player.weapons[0] = [type |-> "pistol", ammo |-> 1]
    /\ player.weapons[1] = [type |-> "pistol", ammo |-> 12]
    /\ player.currentWeapon = 1
    /\ Len(droppedWeapons) = 1
    /\ droppedWeapons[1].type = "rifle"
    /\ droppedWeapons[1].ammo = 30

\* C13 (under SpecInventory): a drop (KeyQ while the game is neither paused nor in the main
\* menu) with the active slot empty changes nothing at all; with a weapon in the active slot
\* it adds exactly one dropped weapon, of that weapon's kind and with the ammo it had left,
\* after those already on the ground, empties the active slot, and leaves the other slot
\* and the active index as they were.
C13_DropEmptiesActiveSlot ==
    [][(DropWeapon /\ KeysLive)
       => LET active == player.currentWeapon
              held == player.weapons[active]
              n == Len(droppedWeapons)
          IN  IF held = NoWeapon
              THEN /\ player' = player
                   /\ droppedWeapons' = droppedWeapons
                   /\ vars' = vars
              ELSE /\ Len(droppedWeapons') = n + 1
                   /\ \A i \in 1..n : droppedWeapons'[i] = droppedWeapons[i]
                   /\ droppedWeapons'[n + 1].type = held.type
                   /\ droppedWeapons'[n + 1].ammo = held.ammo
                   /\ player'.weapons[active] = NoWeapon
                   /\ player'.weapons[1 - active] = player.weapons[1 - active]
                   /\ player'.currentWeapon = active]_vars

\* C13's case: the rifle of slot 1 was fired once and dropped: it lies two units in front of
\* the player with its 29 rounds, slot 1 is empty and still the active slot, slot 0 still
\* holds the pistol
C13_FiredRifleDropped ==
    /\ player.currentWeapon = 1
    /\ player.weapons[1] = NoWeapon
    /\ player.weapons[0] = [type |-> "pistol", ammo |-> 1]
    /\ Len(droppedWeapons) = 1
    /\ droppedWeapons[1].type = "rifle"
    /\ droppedWeapons[1].ammo = 29
    /\ droppedWeapons[1].position = <<0, 500, -11000>>
    /\ shootResult = "true"

\* C14 (under SpecCombat): a throw (KeyG while the game is neither paused nor in the main
\* menu) with no grenade held changes nothing; otherwise it takes exactly 1 from the count
\* and adds exactly one live grenade after those in flight.  The count is never negative;
\* it only goes up in a restart, which sets it to 3; and the live grenades are never more
\* than the 3 - count thrown since the last reset.
C14_ThrowCountsDown ==
    /\ [][(ThrowGrenade /\ KeysLive)
          => IF player.grenades = 0
             THEN vars' = vars
             ELSE /\ player'.grenades = player.grenades - 1
                  /\ Len(grenades') = Len(grenades) + 1
                  /\ \A i \in 1..Len(grenades) : grenades'[i] = grenades[i]
                  /\ grenades'[Len(grenades')].fuseTime = now + 3000]_vars
    /\ [][player'.grenades > player.grenades
          => (RestartButton /\ player'.grenades = 3)]_vars
    /\ [](/\ player.grenades >= 0
          /\ player.grenades <= 3
          /\ Len(grenades) <= 3 - player.grenades)

\* C14's case: all three grenades were thrown before any frame ran; none is left to throw,
\* so the next KeyG finds the count at zero
C14_AllThreeThrown ==
    /\ player.grenades = 0
    /\ Len(grenades) = 3
    /\ frames = 0
    /\ ~gameState.isPaused

(***************************************************************************)
(* The grenade's fuse, under SpecCombat.                                   *)
(***************************************************************************)
\* C15: the step of the grenade loop for a grenade whose fuse time has not come keeps it in
\* the list; the step for a grenade whose fuse time has come removes it (and only it),
\* whether or not the cube is within 5 of it, and when the cube is 5 or more away the cube
\* is left exactly as it was (health, hit flag, velocity and all).  Outside a restart, no
\* other step takes a grenade from the list.  So once the grenade loop of a pass has
\* passed a grenade (those above idx; all of them when the loop is through), the grenades
\* still in the list are all before their fuse time.
C15_GrenadeGoesOffAtFuseTime ==
    /\ [][(pc = "grenades" /\ idx >= 1)
          => LET fuseTime == grenades[idx].fuseTime
                 grenade == GrenadePhysics(grenades[idx])
                 dx == targetCube.position[1] - grenade.position[1]
                 dy == targetCube.position[2] - grenade.position[2]
                 dz == targetCube.position[3] - grenade.position[3]
             IN  IF now < fuseTime
                 THEN /\ Len(grenades') = Len(grenades)
                      /\ grenades'[idx].fuseTime = fuseTime
                      /\ targetCube' = targetCube
                 ELSE /\ Len(grenades') = Len(grenades) - 1
                      /\ \A i \in 1..(idx - 1) : grenades'[i] = grenades[i]
                      /\ \A i \in idx..Len(grenades') : grenades'[i] = grenades[i + 1]
                      /\ (dx * dx + dy * dy + dz * dz >= 5000 * 5000)
                             => targetCube' = targetCube]_vars
    /\ [][Len(grenades') < Len(grenades)
          => \/ pc = "grenades" /\ idx >= 1 /\ now >= grenades[idx].fuseTime
             \/ RestartButton]_vars
    /\ [](pc = "grenades" => \A i \in (idx + 1)..Len(grenades) : now < grenades[i].fuseTime)

\* C15's case: two grenades were thrown at page load and the only pass so far ran 3000 ms
\* later, right after the rifle was fired down at the cube.  The bullet hit; the grenade
\* thrown last went off in range and killed the cube, which was respawned elsewhere; then
\* the grenade thrown first went off 5 or more from where the cube now is.  Both grenades
\* are gone and the cube is as the respawn left it: health 100, at rest
C15_DetonatedOutOfRange ==
    /\ pc = "grenades"
    /\ idx = 0
    /\ frames = 1
    /\ now = PageLoadTime + 3000
    /\ player.lastShot = now
    /\ player.rotation = <<0, -784>>
    /\ player.weapons[0] = [type |-> "rifle", ammo |-> 29]
    /\ bullets = <<>>
    /\ player.grenades = 1
    /\ grenades = <<>>
    /\ targetCube.hit
    /\ targetCube.health = 100000
    /\ targetCube.position # <<0, 500, -5000>>
    /\ targetCube.velocity = <<0, 0, 0>>

(***************************************************************************)
(* The pitch, under SpecLook.                                              *)
(***************************************************************************)
\* C16: in every state, whatever mouse movements, mouse sensitivities and invert settings
\* the frames so far have seen, the player's pitch is within -pi/2..pi/2.
C16_PitchWithinQuarterTurn ==
    player.rotation[2] >= -HalfPi /\ player.rotation[2] <= HalfPi

\* C16's case: the clamp has acted at the lower end.  After two frames, with the mouse not
\* inverted and the sensitivity at 10, the pitch is exactly -pi/2 (1571 thousandths, an odd
\* number, where every mouse movement changes the pitch by an even number: only the clamp
\* gives this value)
C16_PitchHeldAtLowerEnd ==
    /\ frames = 2
    /\ pc = "cube"
    /\ player.rotation[2] = -HalfPi
    /\ ~settings.invertMouse
    /\ settings.mouseSensitivity = 10000
    /\ player.currentFov = 0

(***************************************************************************)
(* The cube's rest snap, under SpecRest.                                   *)
(***************************************************************************)
\* the frames within which the cube has come to rest
MaxSettleFrames == 30

\* the cube is at rest: no velocity, no spin, every rotation axis within 0.01 of a multiple
\* of pi/2
CubeAtRest ==
    /\ targetCube.velocity = <<0, 0, 0>>
    /\ targetCube.angularVelocity = <<0, 0, 0>>
    /\ \A i \in 1..3 : \E k \in -8..8 : Abs(targetCube.rotation[i] - k * HalfPi) <= 10

\* C17: a cube that starts without velocity or spin and with a rotation that is not
\* axis-aligned, and is updated with no hit and no push, has come to rest once
\* MaxSettleFrames updates have run: every rotation axis is within 0.01 of the nearest
\* multiple of pi/2, the velocity and the angular velocity are exactly zero.  And a cube
\* found at rest when a frame is through is at rest after every later update.
C17_CubeSnapsToRest ==
    /\ []((frames >= MaxSettleFrames /\ pc # "cube") => CubeAtRest)
    /\ [][CubeAtRest => CubeAtRest']_vars

\* C17's case: the cube that was stopped at rotation (0.785, 2.0, -0.012) lies exactly
\* axis-aligned, at (0, pi/2, 0), without velocity or spin, when a frame is through
C17_CubeSnapped ==
    /\ pc = "idle"
    /\ frames >= 1
    /\ targetCube.rotation = <<0, HalfPi, 0>>
    /\ targetCube.velocity = <<0, 0, 0>>
    /\ targetCube.angularVelocity = <<0, 0, 0>>
    /\ targetCube.position = <<0, 500, -5000>>

(***************************************************************************)
(* The grenade's bounce, under SpecLob.                                    *)
(***************************************************************************)
\* C18: when, in the grenade loop, a grenade's position after gravity and motion is at or
\* below the height 0.3, the step leaves it at height exactly 0.3 (x and z moved by the
\* velocity it came with), its vertical velocity is the negation of the vertical velocity
\* it reached the ground with (the one after this pass's gravity), times 0.5, and both
\* horizontal velocities are scaled by 0.8.  So a grenade that reaches the ground with
\* vertical velocity -0.05 leaves it with +0.025.
C18_BounceHalvesAndSlows ==
    /\ [][(/\ pc = "grenades"
           /\ idx >= 1
           /\ now < grenades[idx].fuseTime
           /\ grenades[idx].position[2] + grenades[idx].velocity[2] - 5 <= 300)
          => LET g == grenades[idx]
                 vy == g.velocity[2] - 5
             IN  /\ grenades'[idx].position =
                        <<g.position[1] + g.velocity[1], 300, g.position[3] + g.velocity[3]>>
                 /\ grenades'[idx].velocity[2] = Mul(-vy, 5, 10)
                 /\ grenades'[idx].velocity[1] = Mul(g.velocity[1], 8, 10)
                 /\ grenades'[idx].velocity[3] = Mul(g.velocity[3], 8, 10)]_vars
    /\ [](GrenadePhysics([position |-> <<0, 340, 0>>, velocity |-> <<100, -45, -200>>,
                          fuseTime |-> now + 3000])
              = [position |-> <<100, 300, -200>>, velocity |-> <<80, 25, -160>>,
                 fuseTime |-> now + 3000])

\* C18's case: the one grenade in flight, thrown with the pitch at pi/2 from height 1.7
\* (it started at height 0.7 with velocity (0, -0.1, -0.3)), reached the ground in its
\* fourth frame with vertical velocity -0.12 and has bounced: it is at height 0.3 with
\* velocity (0, 0.06, -0.24)
C18_GrenadeBounced ==
    /\ pc = "idle"
    /\ frames = 4
    /\ Len(grenades) = 1
    /\ grenades[1].position[2] = 300
    /\ grenades[1].velocity = <<0, 60, -240>>

(***************************************************************************)
(* Zero-distance collision pairs, under SpecOverlap.                       *)
(***************************************************************************)
\* C19: when the player's and the cube's horizontal centres coincide, the collision step
\* of the frame changes nothing of the player and nothing of the cube (no position, no
\* velocity, no angular velocity).  And when an unpicked pickup's horizontal centre, after
\* its own motion in this frame, coincides with the player's, the pickup step applies no
\* push and no separation to it: its horizontal position is where its motion took it and
\* its horizontal velocity is what friction left; the player is not moved.
C19_CoincidentCentresNotSeparated ==
    /\ [][(/\ pc = "collision"
           /\ player.position[1] = targetCube.position[1]
           /\ player.position[3] = targetCube.position[3])
          => (player' = player /\ targetCube' = targetCube)]_vars
    /\ [][pc = "pickups"
          => \A i \in 1..Len(weaponPickups) :
                LET pickup == weaponPickups[i]
                    position == weaponPickupLocations[i].position
                    vx == Mul(pickup.velocity[1], 92, 100)
                    vz == Mul(pickup.velocity[3], 92, 100)
                IN  (/\ ~pickup.picked
                     /\ position[1] + vx = player.position[1]
                     /\ position[3] + vz = player.position[3])
                    => /\ weaponPickupLocations'[i].position[1] = position[1] + vx
                       /\ weaponPickupLocations'[i].position[3] = position[3] + vz
                       /\ weaponPickups'[i].velocity[1] = vx
                       /\ weaponPickups'[i].velocity[3] = vz
                       /\ player' = player]_vars

\* C19's case: three frames have run with the player, the cube and the third pickup point
\* (not picked up) at one and the same horizontal position: all three are where they were
\* and the cube and the pickup have no velocity
C19_StillOnTopOfEachOther ==
    /\ pc = "idle"
    /\ frames = 3
    /\ ~weaponPickups[3].picked
    /\ player.position = <<0, 1700, -10000>>
    /\ targetCube.position = <<0, 500, -10000>>
    /\ targetCube.velocity = <<0, 0, 0>>
    /\ targetCube.angularVelocity = <<0, 0, 0>>
    /\ weaponPickupLocations[3].position = <<0, 150, -10000>>
    /\ weaponPickups[3].velocity = <<0, 0, 0>>

(***************************************************************************)
(* The cube's respawn, under SpecCombat.                                   *)
(***************************************************************************)
\* C20 as stated: every step that respawns the cube, the bullet loop's (a hit that brings
\* the health to 0 or below) and the grenade loop's (an explosion in range that does),
\* leaves the cube with zero velocity and zero angular velocity.
C20_RespawnStopsCube ==
    [][(\/ /\ pc = "bullets"
           /\ idx >= 1
           /\ LET bullet == bullets[idx]
                  pos == <<bullet.position[1] + bullet.velocity[1],
                           bullet.position[2] + bullet.velocity[2],
                           bullet.position[3] + bullet.velocity[3]>>
              IN  /\ pos[2] > 0
                  /\ now < bullet.lifetime
                  /\ BulletInCube(pos, targetCube)
                  /\ targetCube.health - bullet.damage <= 0
        \/ /\ pc = "grenades"
           /\ idx >= 1
           /\ LET grenade == GrenadePhysics(grenades[idx])
                  dist == BlastDistance(targetCube, grenade)
              IN  /\ now >= grenade.fuseTime
                  /\ dist < 5000
                  /\ targetCube.health - (50000 - 10 * dist) <= 0)
       => /\ targetCube'.velocity = <<0, 0, 0>>
          /\ targetCube'.angularVelocity = <<0, 0, 0>>]_vars

(***************************************************************************)
(* The order of the steps of a frame, under SpecBullets.                   *)
(***************************************************************************)
\* C21 as stated, its last part: in every frame the cube's own integration step
\* (TargetCube.update, the step taken at pc = "cube") runs after the player-cube collision
\* step and after the projectile steps of that frame.  pc names the step to run next, so
\* the steps of the frame that have run are those before it in the frame: at pc = "cube"
\* the collision step and the bullet and grenade loops of this frame must have run.
C21_CubeIntegratesLast ==
    LET ranBefore ==
            [s \in {"idle", "cube", "collision", "pickups", "bullets", "grenades"} |->
                CASE s = "idle" -> {}
                  [] s = "cube" -> {"player"}
                  [] s = "collision" -> {"player", "cube"}
                  [] s = "pickups" -> {"player", "cube", "collision"}
                  [] s = "bullets" -> {"player", "cube", "collision", "pickups"}
                  [] s = "grenades" -> {"player", "cube", "collision", "pickups",
                                        "bullets", "dropped"}]
    IN  pc = "cube" => {"collision", "bullets", "grenades"} \subseteq ranBefore[pc]

(***************************************************************************)
(* The player on the ground and in the air, under SpecMove.                *)
(***************************************************************************)
\* C22 as stated: when Player.update is through (pc = "cube"), the grounded flag is true
\* exactly when the update ended in ground contact, that is with the height clamped to the
\* target eye height; with the player above the target eye height the flag is false.
C22_GroundedOnlyOnContact ==
    pc = "cube" => (player.onGround <=> player.position[2] = player.targetHeight)


\* the vertical velocity Player.update leaves behind when it has started a jump in the air:
\* the jump power less one step of upward gravity
JumpStartVelocity ==
    physics.jumpPower - Mul(physics.gravity, physics.gravityMultiplierUp, 10)

\* C23: Player.update starts a jump (the vertical velocity is the jump power, less the
\* gravity of that update) only when the jump key is held, was not held in the previous
\* update, the player is grounded and no crouch key is held; so with the key held since the
\* previous update no jump starts, landing included.
C23_JumpOnlyOnFreshPress ==
    [][(pc = "idle" /\ pc' = "cube" /\ player'.velocity[2] = JumpStartVelocity)
         => /\ "Space" \in input.keys
            /\ ~player.jumpPressed
            /\ player.onGround
            /\ input.keys \cap {"ControlLeft", "ControlRight", "KeyC"} = {}]_vars

\* a jump has just started in the last update of the run: the player has left the ground
\* from standing height with the jump velocity
C23_JumpJustStarted ==
    /\ pc = "cube"
    /\ frames = MaxMoveFrames
    /\ player.velocity[2] = JumpStartVelocity
    /\ player.position[2] = physics.playerHeight + JumpStartVelocity
    /\ ~player.onGround
    /\ player.jumpPressed


(***************************************************************************)
(* Check-pickup passes and picked points, under SpecInventory.             *)
(***************************************************************************)
\* C24: a check-pickup pass (KeyE while the game is neither paused nor in the main menu)
\* that collects a dropped weapon (the last one within 2 of the player) leaves a weapon of
\* exactly that kind and ammo in the active slot and takes that dropped weapon, and no
\* other, off the ground.  A pass that collects a pickup point marks the point picked and
\* brings in a weapon of the point's kind with full ammo: it is in a slot, or, when the pass
\* went on to put it down again, last on the ground; with a slot free and no dropped weapon
\* within reach it is in the active slot.
C24_CollectedWeaponKeepsAmmo ==
    [][(CheckPickup /\ KeysLive)
       => LET near(position) == DistXZ(player.position, position) < 2000
              points == {i \in 1..Len(weaponPickups) :
                            /\ ~weaponPickups[i].picked
                            /\ near(weaponPickupLocations[i].position)}
              lying == {i \in 1..Len(droppedWeapons) : near(droppedWeapons[i].position)}
              n == Len(droppedWeapons)
              n1 == Len(droppedWeapons')
          IN  /\ (points = {} /\ lying # {}) =>
                     LET i == CHOOSE k \in lying : \A j \in lying : j <= k
                     IN  /\ player'.weapons[player'.currentWeapon] =
                                [type |-> droppedWeapons[i].type, ammo |-> droppedWeapons[i].ammo]
                         /\ n1 \in {n - 1, n}
                         /\ SubSeq(droppedWeapons', 1, n - 1) = Remove(droppedWeapons, i)
                         /\ weaponPickups' = weaponPickups
              /\ \A i \in points :
                     LET full == [type |-> weaponPickups[i].type,
                                  ammo |-> weaponTypes[weaponPickups[i].type].maxAmmo]
                     IN  /\ weaponPickups'[i].picked
                         /\ points = {i} =>
                                \/ \E s \in {0, 1} : player'.weapons[s] = full
                                \/ /\ n1 > 0
                                   /\ droppedWeapons'[n1].type = full.type
                                   /\ droppedWeapons'[n1].ammo = full.ammo
                         /\ (/\ points = {i}
                             /\ lying = {}
                             /\ \E s \in {0, 1} : player.weapons[s] = NoWeapon)
                                => player'.weapons[player'.currentWeapon] = full]_vars

\* C24's case: with the third pickup point collected and both slots full, a pass took the
\* pistol with its one round off the ground: it is in the active slot with one round, the
\* point's pistol is in the other slot with twelve, and only a rifle is left on the ground
C24_OneRoundPistolTaken ==
    /\ weaponPickups[3].picked
    /\ player.currentWeapon = 1
    /\ player.weapons[1] = [type |-> "pistol", ammo |-> 1]
    /\ player.weapons[0] = [type |-> "pistol", ammo |-> weaponTypes["pistol"].maxAmmo]
    /\ Len(droppedWeapons) = 1
    /\ droppedWeapons[1].type = "rifle"


(***************************************************************************)
(* Picked points, under SpecCollect.                                       *)
(***************************************************************************)
\* C25: a pickup point that is marked picked stays picked, with its position and velocity
\* as they are, through every step other than a reset (restart or return to the main
\* menu); and a check-pickup pass with no unpicked point and no dropped weapon within reach
\* collects nothing, however near the picked points are.
C25_PickedStaysPicked ==
    /\ [][\A i \in 1..Len(weaponPickups) :
              weaponPickups[i].picked =>
                  \/ RestartButton
                  \/ MainMenuButton
                  \/ /\ weaponPickups'[i].picked
                     /\ weaponPickups'[i].velocity = weaponPickups[i].velocity
                     /\ weaponPickupLocations'[i].position = weaponPickupLocations[i].position]_vars
    /\ [][(/\ CheckPickup
           /\ \A i \in 1..Len(weaponPickups) :
                  \/ weaponPickups[i].picked
                  \/ ~(DistXZ(player.position, weaponPickupLocations[i].position) < 2000)
           /\ \A k \in 1..Len(droppedWeapons) :
                  ~(DistXZ(player.position, droppedWeapons[k].position) < 2000))
          => vars' = vars]_vars

\* C25's case: the third point was collected with the player within its push radius, and a
\* whole update pass has run since: the point is where it was, still picked, and the
\* player holds its pistol
C25_PickedPointNotPushed ==
    /\ weaponPickups[3].picked
    /\ DistXZ(player.position, weaponPickupLocations[3].position) < 800
    /\ weaponPickupLocations[3].position = SettledLocations[3].position
    /\ player.weapons[0] = [type |-> "pistol", ammo |-> weaponTypes["pistol"].maxAmmo]
    /\ frames = MaxCollectFrames
    /\ pc = "idle"


(***************************************************************************)
(* Bullets and the cube's health, under SpecBullets.                       *)
(***************************************************************************)
\* C26: in the bullet loop, the step for a bullet that has moved to the ground or whose
\* lifetime is over removes it and leaves the cube as it is; otherwise the step for a bullet
\* that has moved inside the cube's half-extent box removes it, sets the hit flag and takes
\* exactly the damage of the bullet's weapon kind from the health (a health brought to 0 or
\* below is 100 after the respawn of the same step); any other bullet stays in the list and
\* leaves the health alone.  No other step of a frame lowers the health without a grenade,
\* so a bullet, gone once it has hit, damages the cube at most once.
C26_BulletDamagesOnce ==
    /\ [][(pc = "bullets" /\ idx >= 1)
          => LET bullet == bullets[idx]
                 pos == <<bullet.position[1] + bullet.velocity[1],
                          bullet.position[2] + bullet.velocity[2],
                          bullet.position[3] + bullet.velocity[3]>>
                 damage == weaponTypes[bullet.type].damage
             IN  IF pos[2] <= 0 \/ now >= bullet.lifetime
                 THEN /\ bullets' = Remove(bullets, idx)
                      /\ targetCube' = targetCube
                 ELSE IF BulletInCube(pos, targetCube)
                 THEN /\ bullets' = Remove(bullets, idx)
                      /\ targetCube'.hit
                      /\ IF targetCube.health - damage > 0
                         THEN targetCube'.health = targetCube.health - damage
                         ELSE targetCube'.health = 100000
                 ELSE /\ Len(bullets') = Len(bullets)
                      /\ bullets'[idx].position = pos
                      /\ targetCube' = targetCube]_vars
    /\ [][(targetCube'.health < targetCube.health /\ grenades = <<>>)
          => (pc = "bullets" /\ idx >= 1)]_vars

\* C26's case: two rifle bullets were fired at the untouched cube; the first has hit and is
\* gone, the health is 75, the hit flag is set, and the second, fired after that frame, is
\* still in the list
C26_FirstOfTwoBulletsHit ==
    /\ targetCube.health = 75000
    /\ targetCube.hit
    /\ Len(bullets) = 1
    /\ player.weapons[0] = [type |-> "rifle", ammo |-> 28]
    /\ pc = "idle"


(***************************************************************************)
(* The menus, under SpecMenus.                                             *)
(***************************************************************************)
\* C27: in every state, whatever play, pause key, resume, restart and return-to-main-menu
\* events (and frames, shots, throws and pointer-lock changes) have come in whatever order,
\* the game is not both paused and in the main menu.
C27_NeverPausedInMainMenu == ~(gameState.isPaused /\ gameState.isInMainMenu)

\* C27's case: the game was played (a frame has run), paused, and left for the main menu:
\* it is in the main menu and not paused
C27_BackInMainMenu ==
    /\ gameState.isInMainMenu
    /\ ~gameState.isPaused
    /\ frames > 0


(***************************************************************************)
(* Input while paused or in the main menu, under SpecPaused.               *)
(***************************************************************************)
\* what C28 is about: the weapon slots with their ammo, the active slot, the grenade count,
\* and the bullets, grenades, dropped weapons and pickups
Arsenal ==
    <<player.weapons, player.currentWeapon, player.grenades, bullets, grenades,
      droppedWeapons, weaponPickups, weaponPickupLocations>>

\* C28: a step taken while the game is paused or in the main menu (a frame tick, a fire,
\* switch, drop, pick-up or throw event, a pointer-lock change, a menu button) leaves the
\* weapon slots, ammo, active slot, grenade count, bullets, grenades, dropped weapons and
\* pickups as they are, unless it is a reset (restart or return to the main menu).
C28_NoInventoryChangeWhilePaused ==
    [][(gameState.isPaused \/ gameState.isInMainMenu)
       => (Arsenal' = Arsenal \/ RestartButton \/ MainMenuButton)]_vars

\* C28's case: the game is paused with a bullet in flight, a grenade in the air, a weapon
\* on the ground and a loaded weapon in the active slot, the pointer locked: every input
\* event would act were it not for the pause
C28_PausedMidFight ==
    /\ gameState.isPaused
    /\ gameState.isPointerLocked
    /\ bullets # <<>>
    /\ grenades # <<>>
    /\ droppedWeapons # <<>>
    /\ player.weapons[player.currentWeapon] # NoWeapon
    /\ player.weapons[player.currentWeapon].ammo > 0
    /\ player.grenades > 0


(***************************************************************************)
(* Floors, under SpecFloors.                                               *)
(***************************************************************************)
\* no body is below its floor
AboveFloors ==
    /\ player.position[2] >= player.targetHeight
    /\ targetCube.position[2] >= initialCubeState.size \div 2
    /\ \A i \in 1..Len(grenades) : grenades[i].position[2] >= 300
    /\ \A i \in 1..Len(droppedWeapons) : droppedWeapons[i].position[2] >= 500
    /\ \A i \in 1..Len(weaponPickups) :
          ~weaponPickups[i].picked => weaponPickupLocations[i].position[2] >= 150
    /\ \A i \in 1..Len(bullets) : bullets[i].position[2] > 0

\* C29: the step that ends an update pass leaves the player at or above the target eye
\* height, the cube's centre at or above size / 2, every grenade in the list at 0.3 or
\* higher, every dropped weapon at 0.5 or higher, every unpicked pickup at 0.15 or higher
\* and every bullet in the list above 0.
C29_NoBodyBelowItsFloor ==
    [][(pc = "grenades" /\ pc' = "idle") => AboveFloors']_vars

\* C29's case: a pass has just ended with a grenade on its floor that was below it when the
\* pass began (thrown downward by the crouching player, it started at height 0.2); the
\* pistol has landed on its floor as well
C29_GrenadeRaisedToFloor ==
    /\ pc = "idle"
    /\ frames = 1
    /\ player.position[2] = 1200
    /\ player.rotation[2] = HalfPi
    /\ Len(grenades) = 1
    /\ grenades[1].position[2] = 300
    /\ droppedWeapons[1].position[2] = 500
    /\ droppedWeapons[1].velocity = <<0, 0, 0>>


(***************************************************************************)
(* The heading of a thrown grenade, under SpecLook.                        *)
(***************************************************************************)
\* the sign of a number
Sign(a) == IF a > 0 THEN 1 ELSE IF a < 0 THEN -1 ELSE 0

\* C30 as stated: whatever the yaw and pitch, a grenade thrown now starts along the heading
\* of a bullet fired now: its spawn offset and its initial velocity point, horizontally,
\* along forward = (-sin yaw, -cos yaw), the direction of shoot() and of movement, and the
\* pitch-dependent vertical component has the sign of the aim direction's.
C30_GrenadeFollowsAim ==
    LET thrown == throwGrenade(player, grenades).grenades
        grenade == thrown[Len(thrown)]
        yaw == player.rotation[1]
        aim == AimForward(player.rotation)
    IN  player.grenades > 0 =>
            /\ grenade.position[1] - player.position[1] = -Sin(yaw)
            /\ grenade.position[3] - player.position[3] = -Cos(yaw)
            /\ grenade.velocity[1] = Mul(-Sin(yaw), 300, 1000)
            /\ grenade.velocity[3] = Mul(-Cos(yaw), 300, 1000)
            /\ Sign(grenade.position[2] - player.position[2]) = Sign(aim[2])

====
